---- MODULE Spec2Model ----
(***************************************************************************)
(* RescueLens: the identity tracker (frontend/src/utils/track.ts), the     *)
(* persistent patient store of the same class, the doctor override of the  *)
(* video detector (frontend/src/components/VideoDetect.tsx) and the        *)
(* rule-based triage of CameraAnalysis.tsx, as state machines.             *)
(*                                                                         *)
(* Conventions.  A track id `person_<n>` is the natural number n.  A       *)
(* bounding box is a record [x, y, w, h] of naturals in units of 1/16 of   *)
(* the frame: such coordinates, their sums and their products are exact    *)
(* in IEEE doubles, so the integer arithmetic below is the arithmetic of   *)
(* the code.  A ratio (an IoU) is a pair <<numerator, denominator>>.       *)
(* Date.now() is the variable `now`, in milliseconds.                      *)
(***************************************************************************)
EXTENDS Integers, Sequences, FiniteSets, TLC

VARIABLES
    now,                \* Date.now()
    ticks,              \* number of clock advances so far (bounds the run)
    trackedPersons,     \* PersonTracker.trackedPersons : id -> TrackedPerson
    nextId,             \* PersonTracker.nextId
    call,               \* the last PersonTracker call: arguments, pre-state, result
    allocated,          \* every id PersonTracker.update has allocated so far
    persistentPatients, \* PersonTracker.persistentPatients : id -> PatientState
    lastDetected,       \* per patient id: when and what was last stored as detected
    isVideoLoaded,      \* VideoDetect: state isVideoLoaded
    isDetecting,        \* VideoDetect: state isDetecting
    video,              \* VideoDetect: the <video> element: none, paused, playing, ended
    rafRef,             \* VideoDetect: a detection loop is scheduled (rafRef.current)
    detectedPersons,    \* VideoDetect: state detectedPersons : id -> DetectedPerson
    breathingData,      \* VideoDetect: breathingDataRef.current : id -> data
    personsInFrame,     \* VideoDetect: personsInFrameRef.current
    startClosure,       \* detectedPersons as captured by the current startDetection callback
    loopClosure,        \* detectedPersons as captured by the running runDetection
    canvas,             \* what the last frame drew per person, and the override then in force
    patients,           \* CameraAnalysis: patients of usePerception
    connected,          \* CameraAnalysis: connected of useWebSocket
    mockTriageDecisions, \* CameraAnalysis: state mockTriageDecisions : id -> TriageDecision
    scene,              \* usePerception: the scene in front of the camera (the input)
    frames,             \* usePerception: pose results processed so far
    breathingBuffers,   \* usePerception: breathingBuffersRef.current : id -> BreathingBuffer
    movementBuffers,    \* usePerception: movementBuffersRef.current : id -> MovementBuffer
    lastPositions,      \* usePerception: lastPositionsRef.current : id -> position
    perceptionPatients, \* usePerception: perceptionState.patients
    arrived,            \* every sample appended to a buffer so far, in arrival order
    held,               \* a caller of PersonTracker: id -> the track object as the caller last saw it
    videoUrl,           \* VideoUploadAnalysis: a video file is selected (the <video> is mounted)
    isPlaying,          \* VideoUploadAnalysis: state isPlaying
    trackedPersonsRef,  \* VideoUploadAnalysis: trackedPersonsRef.current, entries in Map order
    nextTrackIdRef,     \* VideoUploadAnalysis: nextTrackIdRef.current
    lastDetectionTimeRef, \* VideoUploadAnalysis: lastDetectionTimeRef.current
    uploadPatients,     \* VideoUploadAnalysis: state patients
    uploadAllocated,    \* every id updateTrackedPersons has allocated so far
    uploadCall,         \* the last VideoUploadAnalysis step, and the ids it allocated
    hook,               \* useWebSocket: the refs and state of the hook, its sockets and timers
    hookCall            \* the last useWebSocket step: its handler, the close code, and
                        \* whether disconnect() was the last call of the hook's user

trackerVars == <<trackedPersons, nextId, allocated>>
storeVars == <<persistentPatients, lastDetected>>
clockVars == <<now, ticks>>
videoVars == <<isVideoLoaded, isDetecting, video, rafRef, detectedPersons, breathingData,
               personsInFrame, startClosure, loopClosure, canvas>>
triageVars == <<patients, connected, mockTriageDecisions>>
perceptionVars == <<scene, frames, breathingBuffers, movementBuffers, lastPositions,
                    perceptionPatients, arrived>>
callerVars == <<held>>
uploadVars == <<videoUrl, isPlaying, trackedPersonsRef, nextTrackIdRef, lastDetectionTimeRef,
                uploadPatients, uploadAllocated, uploadCall>>
socketVars == <<hook, hookCall>>
vars == <<now, ticks, trackedPersons, nextId, call, allocated,
          persistentPatients, lastDetected, isVideoLoaded, isDetecting, video, rafRef,
          detectedPersons, breathingData, personsInFrame, startClosure, loopClosure,
          canvas, patients, connected, mockTriageDecisions, scene, frames,
          breathingBuffers, movementBuffers, lastPositions, perceptionPatients, arrived,
          held, videoUrl, isPlaying, trackedPersonsRef, nextTrackIdRef,
          lastDetectionTimeRef, uploadPatients, uploadAllocated, uploadCall,
          hook, hookCall>>

\* What the actions of one component leave alone.
outsideTracker ==
    <<videoVars, triageVars, perceptionVars, callerVars, uploadVars, socketVars>>
outsideVideo ==
    <<trackerVars, call, storeVars, triageVars, perceptionVars, callerVars, uploadVars,
      socketVars>>
outsideTriage ==
    <<trackerVars, call, storeVars, videoVars, perceptionVars, callerVars, uploadVars,
      socketVars>>
outsidePerception ==
    <<ticks, trackerVars, call, storeVars, videoVars, triageVars, callerVars, uploadVars,
      socketVars>>
outsideCaller ==
    <<clockVars, nextId, allocated, call, storeVars, videoVars, triageVars, perceptionVars,
      uploadVars, socketVars>>
outsideUpload ==
    <<ticks, trackerVars, call, storeVars, videoVars, triageVars, perceptionVars, callerVars,
      socketVars>>

----------------------------------------------------------------------------
(* Bounds of the model *)

MaxTicks == 3       \* clock advances in one run
MaxId == 2          \* ids PersonTracker.update may allocate in one run
MaxDets == 2        \* detections in one batch

(* Program constants *)

maxAge == 30000
maxPersistentAge == 300000
iouThresholdHalf == <<1, 2>>   \* mutant: a threshold of 0.5
iouThreshold == <<3, 10>>
breathingMaxSize == 150
movementMaxSize == 50

----------------------------------------------------------------------------
(* Inputs *)

Box(x, y, w, h) == [x |-> x, y |-> y, w |-> w, h |-> h]

\* Detections the detector may report.  BoxA/BoxB overlap with IoU 1/2,
\* BoxA/BoxC with IoU 1/3, BoxA/BoxD with IoU 1/7, BoxB/BoxB2 touch (IoU 0)
\* and both have IoU 1/2 with BoxA; BoxZ has zero area.
BoxA == Box(0, 0, 4, 2)
BoxB == Box(0, 0, 2, 2)
BoxB2 == Box(2, 0, 2, 2)
BoxC == Box(2, 0, 4, 2)
BoxD == Box(3, 0, 4, 2)
BoxZ == Box(1, 0, 0, 2)
Boxes == {BoxA, BoxB, BoxB2, BoxC, BoxD, BoxZ}

Batches == UNION {[1..n -> Boxes] : n \in 0..MaxDets}

\* Elapsed milliseconds between two observations of Date.now().
ClockSteps == {1, maxAge}
StoreClockSteps == {1, maxAge, maxPersistentAge}

\* A JavaScript value that is a number, null or undefined.
Num(n) == [kind |-> "number", value |-> n]
NullV == [kind |-> "null", value |-> 0]
UndefinedV == [kind |-> "undefined", value |-> 0]

\* Patient ids (`person_<n>`) and the vital signs a caller may report.
PatientIds == {1, 2}
Vitals ==
    {[rr_bpm |-> Num(16), breathing |-> "true", movement |-> "purposeful"],
     [rr_bpm |-> NullV, breathing |-> "false", movement |-> "none"]}

\* A PatientState as usePerception builds it: ts is the time of the frame.
Patient(id, v, t) ==
    [id |-> id, rr_bpm |-> v.rr_bpm, breathing |-> v.breathing,
     movement |-> v.movement, ts |-> t]

VitalsOf(p) == [rr_bpm |-> p.rr_bpm, breathing |-> p.breathing, movement |-> p.movement]

\* A scene is what the pose model sees of one person, frame after frame:
\* the chest centre oscillates between base and base + amp (units of 1/256
\* of the frame height), the centroid moves speed back and forth between
\* two frames (units of 1/1024 of the frame width), and a pose result comes
\* one second after the previous one, or in the same millisecond at every
\* fourth frame of a stalling scene.  Such values, their sums and the
\* comparisons below are exact in IEEE doubles.  In the wave scene the chest
\* centre follows 0.5 + 0.25 sin(2 pi 0.25 t), sampled every 100 ms from
\* t = 0 and rounded to 1/256.
Bases == {64, 76, 77}
Amps == {0, 2, 4}
Speeds == {0, 5, 6, 11, 21}
SineScene ==
    [base |-> 128, amp |-> 64, speed |-> 0, stall |-> FALSE, wave |-> TRUE, back |-> FALSE,
     ramp |-> FALSE]
\* A scene during which the system clock is set back by half a second before
\* every fourth frame.
BackScene ==
    [base |-> 64, amp |-> 0, speed |-> 5, stall |-> FALSE, wave |-> FALSE, back |-> TRUE,
     ramp |-> FALSE]
\* A scene in which the chest centre sinks by 1/256 of the frame height
\* from each frame to the next.
RampScene ==
    [base |-> 64, amp |-> 0, speed |-> 0, stall |-> FALSE, wave |-> FALSE, back |-> FALSE,
     ramp |-> TRUE]
Scenes ==
    [base : Bases, amp : Amps, speed : Speeds, stall : BOOLEAN, wave : {FALSE}, back : {FALSE},
     ramp : {FALSE}]
        \cup {SineScene, BackScene, RampScene}
StillScene ==
    [base |-> 64, amp |-> 0, speed |-> 0, stall |-> FALSE, wave |-> FALSE, back |-> FALSE,
     ramp |-> FALSE]

\* 64 sin(2 pi j / 40) rounded to an integer, for j = 0 .. 10
SineQuarter == <<0, 10, 20, 29, 38, 45, 52, 57, 61, 63, 64>>

\* 64 sin(2 pi j / 40) rounded to an integer
Sine64(j) ==
    LET m == j % 40
    IN IF m <= 10 THEN SineQuarter[m + 1]
       ELSE IF m <= 20 THEN SineQuarter[21 - m]
       ELSE IF m <= 30 THEN 0 - SineQuarter[m - 19]
       ELSE 0 - SineQuarter[41 - m]

ChestAt(sc, k) ==
    IF sc.wave THEN sc.base + Sine64(k - 1)
    ELSE IF sc.ramp THEN sc.base + k
    ELSE sc.base + (IF k % 2 = 1 THEN sc.amp ELSE 0)
CentroidAt(sc, k) == IF k % 2 = 1 THEN sc.speed ELSE 0
StepAt(sc, k) ==
    IF sc.wave THEN 100
    ELSE IF sc.back /\ k % 4 = 0 THEN 0 - 500
    ELSE IF sc.stall /\ k % 4 = 0 THEN 0 ELSE 1000

-----------------------------------------------------------------------------
(* Helpers *)

Max(a, b) == IF a >= b THEN a ELSE b
Min(a, b) == IF a <= b THEN a ELSE b

\* r > s for ratios with positive denominators
RatioGt(r, s) == r[1] * s[2] > s[1] * r[2]

RECURSIVE SortedSeq(_)
SortedSeq(S) ==
    IF S = {} THEN <<>>
    ELSE LET m == CHOOSE a \in S : \A b \in S : a <= b
         IN <<m>> \o SortedSeq(S \ {m})

\* Iteration order of the Map trackedPersons: insertion order.  Ids are
\* inserted once each, in increasing order, so it is the ascending order.
MapOrder(tp) == SortedSeq(DOMAIN tp)

Restrict(f, S) == [k \in S |-> f[k]]

SeqRange(q) == {q[k] : k \in DOMAIN q}

\* r < s for ratios with positive denominators
RatioLt(r, s) == r[1] * s[2] < s[1] * r[2]

Abs(x) == IF x < 0 THEN -x ELSE x

\* reduce((sum, v) => sum + v, 0) over the first n elements
RECURSIVE SumTo(_, _)
SumTo(q, n) == IF n = 0 THEN 0 ELSE q[n] + SumTo(q, n - 1)

\* Math.max(...q) and Math.min(...q) of a non-empty array
MaxOf(q) == CHOOSE m \in SeqRange(q) : \A v \in SeqRange(q) : v <= m
MinOf(q) == CHOOSE m \in SeqRange(q) : \A v \in SeqRange(q) : m <= v

\* Array.indexOf: the first index holding v
IndexOf(q, v) == CHOOSE i \in DOMAIN q : q[i] = v /\ \A j \in 1 .. i - 1 : q[j] # v

\* Math.round of the ratio r >= 0
Round(r) == (2 * r[1] + r[2]) \div (2 * r[2])

----------------------------------------------------------------------------
(* track.ts *)

\* mutant: the union taken as the sum of the two areas
calculateIoUSumOfAreas(bbox1, bbox2) ==
    LET x1 == Max(bbox1.x, bbox2.x)
        y1 == Max(bbox1.y, bbox2.y)
        x2 == Min(bbox1.x + bbox1.w, bbox2.x + bbox2.w)
        y2 == Min(bbox1.y + bbox1.h, bbox2.y + bbox2.h)
    IN IF x2 <= x1 \/ y2 <= y1 THEN <<0, 1>>
       ELSE <<(x2 - x1) * (y2 - y1), bbox1.w * bbox1.h + bbox2.w * bbox2.h>>

\* mutant: two identical boxes have IoU 1 whatever their area
calculateIoUIdenticalIsOne(bbox1, bbox2) ==
    LET x1 == Max(bbox1.x, bbox2.x)
        y1 == Max(bbox1.y, bbox2.y)
        x2 == Min(bbox1.x + bbox1.w, bbox2.x + bbox2.w)
        y2 == Min(bbox1.y + bbox1.h, bbox2.y + bbox2.h)
    IN IF bbox1 = bbox2 THEN <<1, 1>>
       ELSE IF x2 <= x1 \/ y2 <= y1 THEN <<0, 1>>
       ELSE <<(x2 - x1) * (y2 - y1),
              bbox1.w * bbox1.h + bbox2.w * bbox2.h - (x2 - x1) * (y2 - y1)>>

\* mutant: the intersection over the area of the first box
calculateIoUOverFirst(bbox1, bbox2) ==
    LET x1 == Max(bbox1.x, bbox2.x)
        y1 == Max(bbox1.y, bbox2.y)
        x2 == Min(bbox1.x + bbox1.w, bbox2.x + bbox2.w)
        y2 == Min(bbox1.y + bbox1.h, bbox2.y + bbox2.h)
    IN IF x2 <= x1 \/ y2 <= y1 THEN <<0, 1>>
       ELSE <<(x2 - x1) * (y2 - y1), bbox1.w * bbox1.h>>

calculateIoU(bbox1, bbox2) ==
    LET x1 == Max(bbox1.x, bbox2.x)
        y1 == Max(bbox1.y, bbox2.y)
        x2 == Min(bbox1.x + bbox1.w, bbox2.x + bbox2.w)
        y2 == Min(bbox1.y + bbox1.h, bbox2.y + bbox2.h)
    IN IF x2 <= x1 \/ y2 <= y1 THEN <<0, 1>>
       ELSE LET intersection == (x2 - x1) * (y2 - y1)
                area1 == bbox1.w * bbox1.h
                area2 == bbox2.w * bbox2.h
                union == area1 + area2 - intersection
            IN <<intersection, union>>

\* calculateIOU of the upload analysis: the same ratio, with the guard on an
\* empty union instead of on an empty intersection.
calculateIOU(bbox1, bbox2) ==
    LET x_overlap == Max(0, Min(bbox1.x + bbox1.w, bbox2.x + bbox2.w) - Max(bbox1.x, bbox2.x))
        y_overlap == Max(0, Min(bbox1.y + bbox1.h, bbox2.y + bbox2.h) - Max(bbox1.y, bbox2.y))
        intersection_area == x_overlap * y_overlap
        area1 == bbox1.w * bbox1.h
        area2 == bbox2.w * bbox2.h
        union_area == area1 + area2 - intersection_area
    IN IF union_area = 0 THEN <<0, 1>> ELSE <<intersection_area, union_area>>

\* Centroid of a box, in half units (x + w/2 is kept as 2x + w).
calculateCentroid(bbox) == [x |-> 2 * bbox.x + bbox.w, y |-> 2 * bbox.y + bbox.h]

NoMatch == [id |-> 0, iou |-> <<0, 1>>]

\* mutant: a later track with the same IoU replaces the best match
RECURSIVE FindBestMatchLast(_, _, _, _, _)
FindBestMatchLast(tp, usedTracks, bbox, order, bestMatch) ==
    IF order = <<>> THEN bestMatch
    ELSE LET id == Head(order)
             iou == calculateIoU(tp[id].bbox, bbox)
             better == /\ id \notin usedTracks
                       /\ RatioGt(iou, iouThreshold)
                       /\ (bestMatch = NoMatch \/ ~RatioGt(bestMatch.iou, iou))
         IN FindBestMatchLast(tp, usedTracks, bbox, Tail(order),
                              IF better THEN [id |-> id, iou |-> iou] ELSE bestMatch)

\* The inner loop of update: the best matching track for one detection.
RECURSIVE FindBestMatch(_, _, _, _, _)
FindBestMatch(tp, usedTracks, bbox, order, bestMatch) ==
    IF order = <<>> THEN bestMatch
    ELSE LET id == Head(order)
             iou == calculateIoU(tp[id].bbox, bbox)
             better == /\ id \notin usedTracks
                       /\ RatioGt(iou, iouThreshold)
                       /\ (bestMatch = NoMatch \/ RatioGt(iou, bestMatch.iou))
         IN FindBestMatch(tp, usedTracks, bbox, Tail(order),
                          IF better THEN [id |-> id, iou |-> iou] ELSE bestMatch)

NewPerson(bbox, t) ==
    [bbox |-> bbox,
     lastSeen |-> t,
     centroid |-> calculateCentroid(bbox),
     breathingBuffer |-> [values |-> <<>>, timestamps |-> <<>>, maxSize |-> breathingMaxSize],
     movementBuffer |-> [velocities |-> <<>>, timestamps |-> <<>>, maxSize |-> movementMaxSize]]

MatchedPerson(person, bbox, t) ==
    [person EXCEPT !.bbox = bbox, !.lastSeen = t, !.centroid = calculateCentroid(bbox)]

\* usedTracks.add(bestMatch.id)
MarkUsed(usedTracks, id) == usedTracks \cup {id}

\* Mutant: the counter is not advanced.
IncrementIdStuck(n) == n

\* this.nextId++ : the value of the counter after an allocation.
IncrementId(n) == n + 1

\* The outer loop of update over the detections, from detection i on.
\* st = [tp, used, nextId, active, created, steps]: the map, usedTracks, the id
\* counter, activePersons (the ids of the records pushed, in order) and the
\* ids given to new tracks, in order.
RECURSIVE ProcessDetections(_, _, _, _)
ProcessDetections(st, detections, i, t) ==
    IF i > Len(detections) THEN st
    ELSE LET bbox == detections[i]
             bestMatch == FindBestMatch(st.tp, st.used, bbox, MapOrder(st.tp), NoMatch)
             newId == st.nextId
             \* what the inner loop saw for this detection
             seen == [tp |-> st.tp, used |-> st.used]
             next ==
                 IF bestMatch # NoMatch
                 THEN [st EXCEPT
                         !.tp = [st.tp EXCEPT
                                   ![bestMatch.id] = MatchedPerson(@, bbox, t)],
                         !.used = MarkUsed(@, bestMatch.id),
                         !.active = Append(@, bestMatch.id),
                         !.steps = Append(@, seen)]
                 ELSE [st EXCEPT
                         !.tp = [k \in DOMAIN st.tp \cup {newId} |->
                                   IF k = newId THEN NewPerson(bbox, t)
                                   ELSE st.tp[k]],
                         !.nextId = IncrementId(@),
                         !.active = Append(@, newId),
                         !.created = Append(@, newId),
                         !.steps = Append(@, seen)]
         IN ProcessDetections(next, detections, i + 1, t)

\* Mutant: a track is deleted as soon as its age reaches maxAge.
ExpireAtMaxAge(tp, t) == Restrict(tp, {id \in DOMAIN tp : ~(t - tp[id].lastSeen >= maxAge)})

\* "Clean up old tracks": the tracks that survive the first loop of update.
Expire(tp, t) == Restrict(tp, {id \in DOMAIN tp : ~(t - tp[id].lastSeen > maxAge)})

\* mutant: every call consumes an id
UpdateResultCounting(tp, nid, detections, t) ==
    ProcessDetections([tp |-> Expire(tp, t), used |-> {}, nextId |-> IncrementId(nid),
                       active |-> <<>>, created |-> <<>>, steps |-> <<>>],
                      detections, 1, t)

UpdateResult(tp, nid, detections, t) ==
    ProcessDetections([tp |-> Expire(tp, t), used |-> {}, nextId |-> nid,
                       active |-> <<>>, created |-> <<>>, steps |-> <<>>],
                      detections, 1, t)

\* getActivePersons(): the ids of the records it returns, at the current time.
getActivePersons == {id \in DOMAIN trackedPersons : now - trackedPersons[id].lastSeen <= maxAge}

NoCall == [op |-> "none"]

\* update(detections), in a run that may allocate maxIds ids.
TrackerUpdate(detections, maxIds) ==
    /\ LET r == UpdateResult(trackedPersons, nextId, detections, now)
       IN /\ r.nextId <= maxIds + 1
          /\ trackedPersons' = r.tp
          /\ nextId' = r.nextId
          /\ allocated' = allocated \cup {r.created[k] : k \in DOMAIN r.created}
          /\ call' = [op |-> "update", detections |-> detections, at |-> now,
                      prev |-> trackedPersons, prevAllocated |-> allocated,
                      returned |-> r.active, created |-> r.created,
                      repeated |-> (call.op = "update" /\ call.detections = detections),
                      steps |-> r.steps]
    /\ UNCHANGED <<clockVars, storeVars, outsideTracker>>

Update(detections) ==
    /\ nextId + Len(detections) <= MaxId + 1
    /\ TrackerUpdate(detections, MaxId)

AdvanceClock(d) ==
    /\ ticks < MaxTicks
    /\ now' = now + d
    /\ ticks' = ticks + 1
    /\ call' = NoCall
    /\ UNCHANGED <<trackerVars, storeVars, outsideTracker>>

\* Map.set(key, value)
MapSet(m, k, v) == [x \in DOMAIN m \cup {k} |-> IF x = k THEN v ELSE m[x]]

\* Mutant: the data passed in replaces the stored data.
TakePassed(existing, patient, t) == [patient EXCEPT !.ts = t]

\* The entry updatePersistentPatientIfActive writes for a patient that is
\* not currently detected: {...existing, ts: Date.now()}.
KeepExisting(existing, patient, t) == [existing EXCEPT !.ts = t]

\* The entries cleanupOldPersistentPatients deletes at time t.
TooOld(pp, t) == {id \in DOMAIN pp : t - pp[id].ts > maxPersistentAge}

\* getAllPersistentPatients(): the ids of the entries it returns.
getAllPersistentPatients == DOMAIN persistentPatients

StoreCall(op, patient, detected) ==
    [op |-> op, patient |-> patient, isCurrentlyDetected |-> detected,
     at |-> now, prev |-> persistentPatients]

StorePersistentPatient(patient) ==
    /\ persistentPatients' = MapSet(persistentPatients, patient.id, patient)
    /\ lastDetected' = MapSet(lastDetected, patient.id,
                              [at |-> now, vitals |-> VitalsOf(patient)])
    /\ call' = StoreCall("store", patient, TRUE)
    /\ UNCHANGED <<clockVars, trackerVars, outsideTracker>>

UpdatePersistentPatientIfActive(patient, isCurrentlyDetected) ==
    /\ IF isCurrentlyDetected
       THEN /\ persistentPatients' = MapSet(persistentPatients, patient.id, patient)
            /\ lastDetected' = MapSet(lastDetected, patient.id,
                                      [at |-> now, vitals |-> VitalsOf(patient)])
       ELSE /\ persistentPatients' =
                  IF patient.id \in DOMAIN persistentPatients
                  THEN MapSet(persistentPatients, patient.id,
                              KeepExisting(persistentPatients[patient.id], patient, now))
                  ELSE persistentPatients
            /\ UNCHANGED lastDetected
    /\ call' = StoreCall("updateIfActive", patient, isCurrentlyDetected)
    /\ UNCHANGED <<clockVars, trackerVars, outsideTracker>>

CleanupOldPersistentPatients ==
    /\ persistentPatients' =
           Restrict(persistentPatients,
                    DOMAIN persistentPatients \ TooOld(persistentPatients, now))
    /\ call' = [op |-> "cleanup", at |-> now, prev |-> persistentPatients]
    /\ UNCHANGED <<clockVars, trackerVars, lastDetected, outsideTracker>>

\* The state after construction, but for the clock.
\* useWebSocket before its first effect: the initial values of its state and refs,
\* no socket created, no timer set.
Unmounted ==
    [ mounted |-> FALSE,            \* the auto-connect effect has run and not been cleaned up
      connectTimeout |-> FALSE,     \* the effect's delayed connect() is pending
      sockets |-> <<>>,             \* readyState of every WebSocket created so far
      wsRef |-> 0,                  \* wsRef.current: an index into sockets, 0 for null
      timers |-> {},                \* pending reconnect timeouts
      reconnectTimeoutRef |-> 0,    \* reconnectTimeoutRef.current: a timer id, 0 for null
      intervals |-> {},             \* running heartbeat intervals: [id, ws]
      heartbeatIntervalRef |-> 0,   \* heartbeatIntervalRef.current: an interval id, 0 for null
      isConnecting |-> FALSE,       \* isConnectingRef.current
      shouldReconnect |-> TRUE,     \* shouldReconnectRef.current
      connected |-> FALSE,          \* wsState.connected
      error |-> FALSE ]             \* wsState.error is not null

Constructed ==
    /\ ticks = 0
    /\ trackedPersons = <<>>
    /\ nextId = 1
    /\ call = NoCall
    /\ allocated = {}
    /\ persistentPatients = <<>>
    /\ lastDetected = <<>>
    /\ isVideoLoaded = FALSE
    /\ isDetecting = FALSE
    /\ video = "none"
    /\ rafRef = FALSE
    /\ detectedPersons = <<>>
    /\ breathingData = <<>>
    /\ personsInFrame = {}
    /\ startClosure = <<>>
    /\ loopClosure = <<>>
    /\ canvas = <<>>
    /\ patients = <<>>
    /\ connected = FALSE
    /\ mockTriageDecisions = <<>>
    /\ frames = 0
    /\ breathingBuffers = <<>>
    /\ movementBuffers = <<>>
    /\ lastPositions = <<>>
    /\ perceptionPatients = <<>>
    /\ arrived = [breathing |-> <<>>, movement |-> <<>>]
    /\ held = <<>>
    /\ videoUrl = FALSE
    /\ isPlaying = FALSE
    /\ trackedPersonsRef = <<>>
    /\ nextTrackIdRef = 0
    /\ lastDetectionTimeRef = 0
    /\ uploadPatients = <<>>
    /\ uploadAllocated = {}
    /\ uploadCall = [op |-> "none"]
    /\ hook = Unmounted
    /\ hookCall = [op |-> "none", code |-> 0, disconnected |-> FALSE]

Init == now = 0 /\ scene = StillScene /\ Constructed

Next ==
    \/ \E detections \in Batches : Update(detections)
    \/ \E d \in ClockSteps : AdvanceClock(d)

Spec == Init /\ [][Next]_vars

NextStore ==
    \/ \E id \in PatientIds, v \in Vitals : StorePersistentPatient(Patient(id, v, now))
    \/ \E id \in PatientIds, v \in Vitals, detected \in BOOLEAN :
          UpdatePersistentPatientIfActive(Patient(id, v, now), detected)
    \/ CleanupOldPersistentPatients
    \/ \E d \in StoreClockSteps : AdvanceClock(d)

SpecStore == Init /\ [][NextStore]_vars

\* update alone, on batches that hold two candidates for one detection:
\* BoxB has IoU 1/2 with BoxA, so that two tracks at BoxB are tied for a
\* detection at BoxA, and BoxR has IoU exactly 3/10 with BoxA.
MaxGreedyId == 3    \* ids PersonTracker.update may allocate in one such run

BoxR == Box(1, 1, 5, 1)
GreedyBoxes == {BoxA, BoxB, BoxR}
GreedyBatches == UNION {[1..n -> GreedyBoxes] : n \in 0..MaxDets}

NextGreedy == \E detections \in GreedyBatches : TrackerUpdate(detections, MaxGreedyId)

SpecGreedy == Init /\ [][NextGreedy]_vars

\* A caller of PersonTracker that keeps the array update returned (as
\* usePerception does within processPoseResults) or the array
\* getActivePersons returned, and may assign to a field of an object it
\* holds.  The elements of both arrays are the objects stored in
\* trackedPersons (activePersons.push(person), Array.from(values())), so
\* while id is a key of the Map, held[id] and trackedPersons[id] denote
\* one object: held[id] is the value the caller last saw or wrote.
AliasBoxes == {BoxA, BoxB}
WrittenBoxes == {BoxC}
AliasBatches == UNION {[1..n -> AliasBoxes] : n \in 0..MaxDets}

\* const persons = tracker.update(detections)
KeepReturned ==
    /\ call.op = "update"
    /\ call.returned # <<>>
    /\ held' = [id \in SeqRange(call.returned) |-> trackedPersons[id]]
    /\ held' # held
    /\ UNCHANGED <<trackedPersons, outsideCaller>>

\* const persons = tracker.getActivePersons()
KeepActive ==
    /\ getActivePersons # {}
    /\ held' = [id \in getActivePersons |-> trackedPersons[id]]
    /\ held' # held
    /\ UNCHANGED <<trackedPersons, outsideCaller>>

\* person.bbox = bbox, on an object the caller holds: the assignment is
\* to the tracker's record when the object is still in the Map.
CallerWrite(id, bbox) ==
    /\ id \in DOMAIN held
    /\ held[id].bbox # bbox
    /\ held' = [held EXCEPT ![id].bbox = bbox]
    /\ trackedPersons' =
           IF id \in DOMAIN trackedPersons
           THEN [trackedPersons EXCEPT ![id].bbox = bbox]
           ELSE trackedPersons
    /\ UNCHANGED outsideCaller

NextAlias ==
    \/ \E detections \in AliasBatches : Update(detections)
    \/ \E d \in ClockSteps : AdvanceClock(d)
    \/ KeepReturned
    \/ KeepActive
    \/ \E id \in DOMAIN held, bbox \in WrittenBoxes : CallerWrite(id, bbox)

SpecAlias == Init /\ [][NextAlias]_vars

----------------------------------------------------------------------------
(* VideoDetect.tsx.  A person id `person_<i>` is the index i of the         *)
(* prediction in the detector's result.  A frame is given by the set of     *)
(* indices whose prediction is a person with score > 0.4 and, per person,   *)
(* the respiratory rate and breathing quality its chest positions yield;    *)
(* the buffer of chest positions is kept as its length.  All Date.now()     *)
(* calls of one frame read the same millisecond.                            *)

MaxPreds == 1       \* predictions in one detector result
MaxSamples == 32    \* chest positions collected for one person in one run

analysisInterval == 3000
minSamples == 30
maxFrames == 150

PredIds == 0 .. MaxPreds - 1

Signals ==
    {[respiratoryRate |-> 16, breathingQuality |-> "regular"],
     [respiratoryRate |-> 35, breathingQuality |-> "labored"],
     [respiratoryRate |-> 0, breathingQuality |-> "absent"]}

OverrideCategories == {"RED", "GREEN"}

VideoClockSteps == {analysisInterval + 1}

determineTriageCategory(rr, quality) ==
    IF quality = "absent" THEN "BLACK"
    ELSE IF rr = 0 THEN "BLACK"
    ELSE IF rr < 8 \/ rr > 30 THEN "RED"
    ELSE IF rr < 12 \/ rr > 20 THEN "YELLOW"
    ELSE "GREEN"

\* generateMedicalDescription: the confidence, in percent.
generateMedicalDescription(category) ==
    CASE category = "RED" -> 85
      [] category = "YELLOW" -> 75
      [] category = "GREEN" -> 90
      [] category = "BLACK" -> 95

NoOverride == [category |-> "", reason |-> "", timestamp |-> 0]
NoAnalysis == [respiratoryRate |-> 0, breathingQuality |-> "", triageCategory |-> ""]

NewBreathingData == [chestPositions |-> 0, lastAnalysis |-> 0, lastMedicalUpdate |-> 0]

\* analyzeBreathing for one person at time t: the data after the push and
\* the analysis returned (NoAnalysis for null).
analyzeBreathing(bd, id, signal, t) ==
    LET data == IF id \in DOMAIN bd THEN bd[id] ELSE NewBreathingData
        pushed == Min(data.chestPositions + 1, maxFrames)
        due == t - data.lastAnalysis > analysisInterval /\ pushed > minSamples
    IN [data |-> [data EXCEPT !.chestPositions = pushed,
                              !.lastAnalysis = IF due THEN t ELSE @],
        analysis |-> IF due
                     THEN [respiratoryRate |-> signal.respiratoryRate,
                           breathingQuality |-> signal.breathingQuality,
                           triageCategory |->
                               determineTriageCategory(signal.respiratoryRate,
                                                       signal.breathingQuality)]
                     ELSE NoAnalysis]

\* person?.doctorOverride?.category || breathingAnalysis?.triageCategory || 'GREEN'
\* with person looked up in the detectedPersons the closure holds.
finalCategory(persons, id, analysis) ==
    IF id \in DOMAIN persons /\ persons[id].doctorOverride.category # ""
    THEN persons[id].doctorOverride.category
    ELSE IF analysis.triageCategory # "" THEN analysis.triageCategory
    ELSE "GREEN"

\* The triage badge of the medical panel, rendered from the current state.
triageBadge(person) ==
    IF person.doctorOverride.category # "" THEN person.doctorOverride.category
    ELSE IF person.triageCategory # "" THEN person.triageCategory
    ELSE "GREEN"

\* The detectedPersons a runDetection started now will read.
ClosureOf(captured) == captured

\* The body of predictions.forEach for the persons of the frame, in index
\* order.  st = [persons, bd, drawn].
RECURSIVE DetectPersons(_, _, _, _, _)
DetectPersons(st, order, signals, closure, t) ==
    IF order = <<>> THEN st
    ELSE LET id == Head(order)
             r == analyzeBreathing(st.bd, id, signals[id], t)
             hasAnalysis == r.analysis # NoAnalysis
             hasMedical == hasAnalysis /\ t - r.data.lastMedicalUpdate > analysisInterval
             data == [r.data EXCEPT !.lastMedicalUpdate = IF hasMedical THEN t ELSE @]
             fields == [respiratoryRate |-> r.analysis.respiratoryRate,
                        breathingQuality |-> r.analysis.breathingQuality,
                        triageCategory |-> r.analysis.triageCategory,
                        confidenceScore |->
                            IF hasMedical
                            THEN generateMedicalDescription(r.analysis.triageCategory)
                            ELSE 0,
                        lastAnalysis |-> t,
                        doctorOverride |-> NoOverride]
             persons ==
                 IF ~hasMedical THEN st.persons
                 ELSE IF id \in DOMAIN st.persons
                 THEN [st.persons EXCEPT
                         ![id] = [fields EXCEPT !.doctorOverride = st.persons[id].doctorOverride]]
                 ELSE MapSet(st.persons, id, fields)
         IN DetectPersons(
                [persons |-> persons,
                 bd |-> MapSet(st.bd, id, data),
                 drawn |-> MapSet(st.drawn, id,
                                  [triageText |-> finalCategory(closure, id, r.analysis),
                                   override |-> IF id \in DOMAIN persons
                                                THEN persons[id].doctorOverride
                                                ELSE NoOverride])],
                Tail(order), signals, closure, t)

\* One run of runDetection on a playing video.
RunDetection(currentFramePersons, signals) ==
    /\ rafRef
    /\ video = "playing"
    /\ \A id \in currentFramePersons :
          id \in DOMAIN breathingData => breathingData[id].chestPositions < MaxSamples
    /\ LET st == DetectPersons([persons |-> detectedPersons, bd |-> breathingData,
                                drawn |-> <<>>],
                               SortedSeq(currentFramePersons), signals, loopClosure, now)
           personsToRemove == personsInFrame \ currentFramePersons
       IN /\ detectedPersons' = Restrict(st.persons, DOMAIN st.persons \ personsToRemove)
          /\ breathingData' = Restrict(st.bd, DOMAIN st.bd \ personsToRemove)
          /\ canvas' = st.drawn
    /\ personsInFrame' = currentFramePersons
    /\ UNCHANGED <<clockVars, outsideVideo, isVideoLoaded, isDetecting,
                   video, rafRef, startClosure, loopClosure>>

\* handleFileUpload: a new source is loaded into the element.
HandleFileUpload ==
    /\ isVideoLoaded' = FALSE
    /\ video' = "paused"
    /\ startClosure' = IF isVideoLoaded THEN detectedPersons ELSE startClosure
    /\ UNCHANGED <<clockVars, outsideVideo, isDetecting, rafRef,
                   detectedPersons, breathingData, personsInFrame, loopClosure, canvas>>

HandleLoadedMetadata ==
    /\ video # "none"
    /\ ~isVideoLoaded
    /\ isVideoLoaded' = TRUE
    /\ startClosure' = detectedPersons
    /\ UNCHANGED <<clockVars, outsideVideo, isDetecting, video, rafRef,
                   detectedPersons, breathingData, personsInFrame, loopClosure, canvas>>

\* The play event of a video started with the element's controls.
HandlePlay ==
    /\ video \in {"paused", "ended"}
    /\ video' = "playing"
    /\ UNCHANGED <<clockVars, outsideVideo, isVideoLoaded, isDetecting,
                   rafRef, detectedPersons, breathingData, personsInFrame, startClosure,
                   loopClosure, canvas>>

\* handlePause and handleEnded
HandleStopped(state) ==
    /\ video = "playing"
    /\ video' = state
    /\ detectedPersons' = <<>>
    /\ breathingData' = <<>>
    /\ personsInFrame' = {}
    /\ UNCHANGED <<clockVars, outsideVideo, isVideoLoaded, isDetecting,
                   rafRef, startClosure, loopClosure, canvas>>

\* The Start Detection button (disabled while detecting or without a video).
StartDetection ==
    /\ isVideoLoaded
    /\ ~isDetecting
    /\ video' = "playing"
    /\ isDetecting' = TRUE
    /\ rafRef' = TRUE
    /\ loopClosure' = ClosureOf(startClosure)
    /\ startClosure' = detectedPersons
    /\ UNCHANGED <<clockVars, outsideVideo, isVideoLoaded,
                   detectedPersons, breathingData, personsInFrame, canvas>>

\* The Stop Detection button (disabled unless detecting).
StopDetection ==
    /\ isDetecting
    /\ isDetecting' = FALSE
    /\ rafRef' = FALSE
    /\ detectedPersons' = <<>>
    /\ breathingData' = <<>>
    /\ personsInFrame' = {}
    /\ startClosure' = <<>>
    /\ UNCHANGED <<clockVars, outsideVideo, isVideoLoaded, video,
                   loopClosure, canvas>>

\* mutant: the override is given to every person of the list
ApplyOverrideToAll(person, id, personId, override) ==
    [person EXCEPT !.doctorOverride = override]

\* person.id === personId ? { ...person, doctorOverride: override } : person
ApplyOverride(person, id, personId, override) ==
    IF id = personId THEN [person EXCEPT !.doctorOverride = override] ELSE person

\* prev.map(...) over detectedPersons
MapOverride(persons, personId, override) ==
    [id \in DOMAIN persons |-> ApplyOverride(persons[id], id, personId, override)]

HandleDoctorOverride(personId, overrideCategory) ==
    /\ detectedPersons' =
           MapOverride(detectedPersons, personId,
                       [category |-> overrideCategory, reason |-> "override",
                        timestamp |-> now])
    /\ UNCHANGED <<clockVars, outsideVideo, isVideoLoaded, isDetecting,
                   video, rafRef, breathingData, personsInFrame, startClosure,
                   loopClosure, canvas>>

\* clearOverride
ClearOverride(personId) ==
    /\ detectedPersons' = MapOverride(detectedPersons, personId, NoOverride)
    /\ UNCHANGED <<clockVars, outsideVideo, isVideoLoaded, isDetecting,
                   video, rafRef, breathingData, personsInFrame, startClosure,
                   loopClosure, canvas>>

InitVideo == now = 2 * analysisInterval /\ scene = StillScene /\ Constructed

NextVideo ==
    \/ HandleFileUpload
    \/ HandleLoadedMetadata
    \/ HandlePlay
    \/ HandleStopped("paused")
    \/ HandleStopped("ended")
    \/ StartDetection
    \/ StopDetection
    \/ \E S \in SUBSET PredIds, signals \in [PredIds -> Signals] : RunDetection(S, signals)
    \/ \E id \in PredIds, c \in OverrideCategories : HandleDoctorOverride(id, c)
    \/ \E id \in PredIds : ClearOverride(id)
    \/ \E d \in VideoClockSteps : AdvanceClock(d)

SpecVideo == InitVideo /\ [][NextVideo]_vars

\* The detector with one person more in the frame, every person of the
\* frame seen in every frame, and the doctor's two buttons pressed for any
\* id, listed or not, within one analysis interval.
OverrideIds == 0 .. MaxPreds
ButtonIds == 0 .. MaxPreds + 1
OverrideSignals == {s \in Signals : s.breathingQuality = "regular"}

NextOverride ==
    \/ HandleFileUpload
    \/ HandleLoadedMetadata
    \/ StartDetection
    \/ \E signals \in [OverrideIds -> OverrideSignals] : RunDetection(OverrideIds, signals)
    \/ \E id \in ButtonIds, c \in OverrideCategories : HandleDoctorOverride(id, c)
    \/ \E id \in ButtonIds : ClearOverride(id)

SpecOverride == InitVideo /\ [][NextOverride]_vars

----------------------------------------------------------------------------
(* CameraAnalysis.tsx: the rule-based triage used while the WebSocket is    *)
(* not connected.  A confidence is kept in percent.                         *)

Rates == {7, 8, 11, 12, 16, 25, 26, 30, 31}
RateValues == {Num(n) : n \in Rates} \cup {NullV, UndefinedV}
BreathingValues == {"true", "false", "null"}
MovementValues == {"purposeful", "low", "none", "unknown"}

PatientStates ==
    [id : {1}, rr_bpm : RateValues, breathing : BreathingValues,
     movement : MovementValues, ts : {0}]

\* The patients arrays usePerception may publish.
PatientLists == {<<>>} \cup {<<p>> : p \in PatientStates}

Decision(category, reason, confidence) ==
    [category |-> category, reason |-> reason, confidence |-> confidence]

\* mutant: the rate boundaries taken inclusively
BreathingRuleInclusive(patient) ==
    IF patient.rr_bpm.kind = "number"
    THEN LET rr == patient.rr_bpm.value
         IN IF rr >= 30 \/ rr <= 8
            THEN Decision("RED", "Critical breathing rate: " \o ToString(rr) \o " bpm", 90)
            ELSE IF rr >= 25 \/ rr <= 12
            THEN Decision("YELLOW", "Abnormal breathing rate: " \o ToString(rr) \o " bpm", 80)
            ELSE Decision("GREEN", "Normal breathing rate: " \o ToString(rr) \o " bpm", 70)
    ELSE IF patient.breathing = "false" THEN Decision("RED", "No breathing detected", 90)
    ELSE IF patient.breathing = "true" THEN Decision("GREEN", "Breathing detected", 70)
    ELSE Decision("YELLOW", "Breathing status unknown", 50)

\* mutant: the two rules for a missing rate exchanged
BreathingRuleExchanged(patient) ==
    IF patient.rr_bpm.kind = "number"
    THEN LET rr == patient.rr_bpm.value
         IN IF rr > 30 \/ rr < 8
            THEN Decision("RED", "Critical breathing rate: " \o ToString(rr) \o " bpm", 90)
            ELSE IF rr > 25 \/ rr < 12
            THEN Decision("YELLOW", "Abnormal breathing rate: " \o ToString(rr) \o " bpm", 80)
            ELSE Decision("GREEN", "Normal breathing rate: " \o ToString(rr) \o " bpm", 70)
    ELSE IF patient.breathing = "false" THEN Decision("RED", "No breathing detected", 90)
    ELSE IF patient.breathing = "true" THEN Decision("YELLOW", "Breathing status unknown", 50)
    ELSE Decision("GREEN", "Breathing detected", 70)

\* mutant: the chain without its final else, the initial values left in place
BreathingRuleNoElse(patient) ==
    IF patient.rr_bpm.kind = "number"
    THEN LET rr == patient.rr_bpm.value
         IN IF rr > 30 \/ rr < 8
            THEN Decision("RED", "Critical breathing rate: " \o ToString(rr) \o " bpm", 90)
            ELSE IF rr > 25 \/ rr < 12
            THEN Decision("YELLOW", "Abnormal breathing rate: " \o ToString(rr) \o " bpm", 80)
            ELSE Decision("GREEN", "Normal breathing rate: " \o ToString(rr) \o " bpm", 70)
    ELSE IF patient.breathing = "false" THEN Decision("RED", "No breathing detected", 90)
    ELSE IF patient.breathing = "true" THEN Decision("GREEN", "Breathing detected", 70)
    ELSE Decision("UNKNOWN", "", 80)

\* The if/else chain on rr_bpm and breathing.
BreathingRule(patient) ==
    IF patient.rr_bpm.kind = "number"
    THEN LET rr == patient.rr_bpm.value
         IN IF rr > 30 \/ rr < 8
            THEN Decision("RED", "Critical breathing rate: " \o ToString(rr) \o " bpm", 90)
            ELSE IF rr > 25 \/ rr < 12
            THEN Decision("YELLOW", "Abnormal breathing rate: " \o ToString(rr) \o " bpm", 80)
            ELSE Decision("GREEN", "Normal breathing rate: " \o ToString(rr) \o " bpm", 70)
    ELSE IF patient.breathing = "false" THEN Decision("RED", "No breathing detected", 90)
    ELSE IF patient.breathing = "true" THEN Decision("GREEN", "Breathing detected", 70)
    ELSE Decision("YELLOW", "Breathing status unknown", 50)

\* mutant: the adjustment applied whatever the category is
MovementRuleAnyCategory(patient, d) ==
    IF patient.movement = "none"
    THEN [d EXCEPT !.category = "YELLOW", !.reason = @ \o " - No movement detected"]
    ELSE d

\* "Adjust based on movement"
MovementRule(patient, d) ==
    IF patient.movement = "none" /\ d.category = "GREEN"
    THEN [d EXCEPT !.category = "YELLOW", !.reason = @ \o " - No movement detected"]
    ELSE d

MockDecision(patient, t) ==
    LET d == MovementRule(patient, BreathingRule(patient))
    IN [id |-> patient.id, category |-> d.category, confidence |-> d.confidence,
        reason |-> d.reason, ts |-> t]

\* newDecisions after patients.forEach
RECURSIVE NewDecisions(_, _, _)
NewDecisions(ps, acc, t) ==
    IF ps = <<>> THEN acc
    ELSE NewDecisions(Tail(ps), MapSet(acc, Head(ps).id, MockDecision(Head(ps), t)), t)

\* The effect on [patients, connected].
MockTriageEffect(ps, conn, decisions, t) ==
    IF ~conn /\ Len(ps) > 0 THEN NewDecisions(ps, <<>>, t) ELSE decisions

\* usePerception publishes a new patients array; the effect runs.
PatientsChange(ps) ==
    /\ ps # patients
    /\ patients' = ps
    /\ mockTriageDecisions' = MockTriageEffect(ps, connected, mockTriageDecisions, now)
    /\ UNCHANGED <<clockVars, outsideTriage, connected>>

\* The WebSocket connects or disconnects; the effect runs.
ConnectedChange ==
    /\ connected' = ~connected
    /\ mockTriageDecisions' = MockTriageEffect(patients, ~connected, mockTriageDecisions, now)
    /\ UNCHANGED <<clockVars, outsideTriage, patients>>

NextTriage ==
    \/ \E ps \in PatientLists : PatientsChange(ps)
    \/ ConnectedChange

SpecTriage == Init /\ [][NextTriage]_vars

----------------------------------------------------------------------------
(* usePerception with its own signal buffers (part_001), and the signal     *)
(* primitives of utils/filters.ts.  A person id `person_<i>` is the index   *)
(* i of the pose in the result.  A chest position is in units of 1/256, a   *)
(* velocity in units of 1/1024 per second.                                  *)

MaxFrames == 152    \* pose results processed in one run

applyBandPassFilter(values) == values

\* frequencies[i] = i / n as a ratio, magnitudes[i] = |values[i]|
calculateFFT(values) ==
    [frequencies |-> [i \in 1 .. Len(values) |-> <<i - 1, Len(values)>>],
     magnitudes |-> [i \in 1 .. Len(values) |-> Abs(values[i])]]

\* mutant: the oldest sample is kept and the newest dropped
ShiftNewest(q) == SubSeq(q, 1, Len(q) - 1)

\* Array.shift()
ShiftOldest(q) == Tail(q)

NewBreathingBuffer == [timestamps |-> <<>>, values |-> <<>>, maxSize |-> 150]
NewMovementBuffer == [timestamps |-> <<>>, velocities |-> <<>>, maxSize |-> 50]

\* updateBreathingBuffer: the buffers after the call.
updateBreathingBuffer(buffers, personId, chestY, timestamp) ==
    LET buffer == IF personId \in DOMAIN buffers THEN buffers[personId]
                  ELSE NewBreathingBuffer
        timestamps == Append(buffer.timestamps, timestamp)
        values == Append(buffer.values, chestY)
        over == Len(timestamps) > buffer.maxSize
    IN MapSet(buffers, personId,
              [buffer EXCEPT !.timestamps = IF over THEN ShiftOldest(timestamps) ELSE timestamps,
                             !.values = IF over THEN ShiftOldest(values) ELSE values])

\* mutant: the signed displacement
DistanceSigned(a, b) == a - b

\* Math.sqrt(dx^2 + dy^2) for two centroids on the x axis
Distance(a, b) == Abs(a - b)

\* updateMovementBuffer for a centroid on the x axis: the buffers and the
\* last positions after the call, and whether a velocity was appended.
updateMovementBuffer(buffers, positions, personId, centroid, timestamp) ==
    LET buffer == IF personId \in DOMAIN buffers THEN buffers[personId]
                  ELSE NewMovementBuffer
        hasLast == personId \in DOMAIN positions
        timeDiff == timestamp - positions[personId].timestamp
        pushed == hasLast /\ timeDiff > 0
        velocity == (Distance(centroid, positions[personId].x) * 1000) \div timeDiff
        timestamps == Append(buffer.timestamps, timestamp)
        velocities == Append(buffer.velocities, velocity)
        over == Len(timestamps) > buffer.maxSize
    IN [buffers |->
            MapSet(buffers, personId,
                   IF ~pushed THEN buffer
                   ELSE [buffer EXCEPT
                           !.timestamps = IF over THEN ShiftOldest(timestamps) ELSE timestamps,
                           !.velocities = IF over THEN ShiftOldest(velocities) ELSE velocities]),
        positions |-> MapSet(positions, personId, [x |-> centroid, timestamp |-> timestamp]),
        pushed |-> pushed,
        velocity |-> IF pushed THEN velocity ELSE 0]

\* mutant: a band that starts at 0 Hz
InBreathingBandFromZero(f) == f[1] >= 0 /\ 10 * f[1] <= 7 * f[2]

\* f >= 0.1 && f <= 0.7
InBreathingBand(f) == 10 * f[1] >= f[2] /\ 10 * f[1] <= 7 * f[2]

\* What calculateBreathingRate computes from at least 30 values before its
\* confidence gate: the rate (as a ratio), the confidence (as a ratio) and
\* the amplitude (in units of 1/256).
BreathingSpectrum(values) ==
    LET filteredValues == applyBandPassFilter(values)
        fft == calculateFFT(filteredValues)
        breathingRange == SelectSeq(fft.frequencies, InBreathingBand)
        breathingMagnitudes == SubSeq(fft.magnitudes, 1, Len(breathingRange))
        maxIndex == IndexOf(breathingMagnitudes, MaxOf(breathingMagnitudes))
        peakFreq == breathingRange[maxIndex]
        peakMagnitude == breathingMagnitudes[maxIndex]
        total == SumTo(breathingMagnitudes, Len(breathingMagnitudes))
        count == Len(breathingMagnitudes)
    IN [rr_bpm |-> <<peakFreq[1] * 60, peakFreq[2]>>,
        \* peak / max(avg, 1) with avg = total / count, magnitudes in 1/256
        confidence |-> <<peakMagnitude * count, Max(total, 256 * count)>>,
        amplitude |-> MaxOf(filteredValues) - MinOf(filteredValues),
        peakFreq |-> peakFreq,
        peakMagnitude |-> peakMagnitude,
        fft |-> fft]

\* mutant: 30 samples are still too few
InsufficientDataUpTo30(buffer) == Len(buffer.values) <= 30

\* buffer.values.length < 30
InsufficientData(buffer) == Len(buffer.values) < 30

\* mutant: a gate at 0.2
LowConfidenceBelowFifth(confidence) == RatioLt(confidence, <<1, 5>>)

\* confidence < 0.3
LowConfidence(confidence) == RatioLt(confidence, <<3, 10>>)

calculateBreathingRate(buffers, personId) ==
    IF personId \notin DOMAIN buffers \/ InsufficientData(buffers[personId])
    THEN [rr_bpm |-> NullV, breathing |-> "null"]
    ELSE LET sp == BreathingSpectrum(buffers[personId].values)
         IN IF LowConfidence(sp.confidence)
            THEN [rr_bpm |-> NullV,
                  breathing |-> IF RatioGt(<<sp.amplitude, 256>>, <<1, 100>>)
                                THEN "true" ELSE "false"]
            ELSE [rr_bpm |-> Num(Round(sp.rr_bpm)), breathing |-> "true"]

\* mutant: one of the two conditions is enough for "purposeful"
MovementLabelEither(total, count, maxVelocity) ==
    IF RatioGt(<<total, 1024 * count>>, <<1, 100>>) \/ RatioGt(<<maxVelocity, 1024>>, <<2, 100>>)
    THEN "purposeful"
    ELSE IF RatioGt(<<total, 1024 * count>>, <<5, 1000>>) THEN "low"
    ELSE "none"

\* The thresholds on avgVelocity = total / count and maxVelocity.
MovementLabel(total, count, maxVelocity) ==
    IF RatioGt(<<total, 1024 * count>>, <<1, 100>>) /\ RatioGt(<<maxVelocity, 1024>>, <<2, 100>>)
    THEN "purposeful"
    ELSE IF RatioGt(<<total, 1024 * count>>, <<5, 1000>>) THEN "low"
    ELSE "none"

calculateMovement(buffers, personId) ==
    IF personId \notin DOMAIN buffers \/ Len(buffers[personId].velocities) < 10
    THEN "unknown"
    ELSE LET velocities == buffers[personId].velocities
         IN MovementLabel(SumTo(velocities, Len(velocities)), Len(velocities),
                          MaxOf(velocities))

\* processPoseResults for a result holding one pose: the next frame of the
\* scene arrives and is processed at the time Date.now() then shows.
ProcessPoseResults ==
    /\ frames < MaxFrames
    /\ LET k == frames + 1
           currentTime == now + StepAt(scene, k)
           personId == 0
           bb == updateBreathingBuffer(breathingBuffers, personId, ChestAt(scene, k),
                                       currentTime)
           mv == updateMovementBuffer(movementBuffers, lastPositions, personId,
                                      CentroidAt(scene, k), currentTime)
           rate == calculateBreathingRate(bb, personId)
       IN /\ now' = currentTime
          /\ frames' = k
          /\ breathingBuffers' = bb
          /\ movementBuffers' = mv.buffers
          /\ lastPositions' = mv.positions
          /\ perceptionPatients' =
                 <<[id |-> personId, rr_bpm |-> rate.rr_bpm, breathing |-> rate.breathing,
                    movement |-> calculateMovement(mv.buffers, personId),
                    ts |-> currentTime]>>
          /\ arrived' =
                 [breathing |-> Append(arrived.breathing,
                                       [t |-> currentTime, v |-> ChestAt(scene, k)]),
                  movement |-> IF mv.pushed
                               THEN Append(arrived.movement,
                                           [t |-> currentTime, v |-> mv.velocity])
                               ELSE arrived.movement]
    /\ UNCHANGED <<scene, outsidePerception>>

InitPerception == now = 0 /\ scene \in Scenes /\ Constructed

NextPerception == ProcessPoseResults

SpecPerception == InitPerception /\ [][NextPerception]_vars

----------------------------------------------------------------------------
(* PersonTracker.update: properties of the last call *)

IsUpdate == call.op = "update"

\* IoU(b1, b2) > 0.3
OverThreshold(b1, b2) == RatioGt(calculateIoU(b1, b2), <<3, 10>>)

\* Track id existed before the call and had not expired when it was made.
Unexpired(id) == id \in DOMAIN call.prev /\ call.at - call.prev[id].lastSeen <= 30000

\* Detection i of the batch overlaps track id and nothing competes: no other
\* unexpired track overlaps the detection, and no other detection of the
\* batch overlaps the track or the detection.
Uncontested(i, id) ==
    /\ Unexpired(id)
    /\ OverThreshold(call.prev[id].bbox, call.detections[i])
    /\ \A other \in DOMAIN call.prev \ {id} :
          Unexpired(other) => ~OverThreshold(call.prev[other].bbox, call.detections[i])
    /\ \A j \in DOMAIN call.detections \ {i} :
          /\ ~OverThreshold(call.prev[id].bbox, call.detections[j])
          /\ ~OverThreshold(call.detections[j], call.detections[i])


\* C1: a detection that overlaps an unexpired track with IoU > 0.3, with no
\* competing track or detection, is returned as that track, and the track is
\* not a newly allocated one.
C1_TrackContinuity ==
    IsUpdate =>
        \A i \in DOMAIN call.detections, id \in DOMAIN call.prev :
            Uncontested(i, id) =>
                /\ call.returned[i] = id
                /\ id \notin SeqRange(call.created)
                /\ trackedPersons[id].bbox = call.detections[i]

\* A later update matched a detection with IoU exactly 1/2 to its track.
C1_Witness ==
    /\ IsUpdate
    /\ \E i \in DOMAIN call.detections, id \in DOMAIN call.prev :
          /\ Uncontested(i, id)
          /\ calculateIoU(call.prev[id].bbox, call.detections[i]) = <<4, 8>>
          /\ call.at > call.prev[id].lastSeen
          /\ call.returned[i] = id

\* C2: within one update call no track is returned for two detections of
\* the batch.
C2_OneToOne ==
    IsUpdate =>
        \A i, j \in DOMAIN call.returned :
            i # j => call.returned[i] # call.returned[j]

\* C3: the ids given to new tracks by an update are strictly increasing in
\* allocation order, larger than every id allocated before, and so differ
\* from every id ever allocated.
C3_IdsNeverReused ==
    IsUpdate =>
        /\ \A k \in DOMAIN call.created :
              /\ call.created[k] \notin call.prevAllocated
              /\ \A old \in call.prevAllocated : call.created[k] > old
        /\ \A k, l \in DOMAIN call.created : k < l => call.created[k] < call.created[l]

\* An update allocated an id although an earlier track had expired and was
\* deleted by the same call.
C3_Witness ==
    /\ IsUpdate
    /\ call.created # <<>>
    /\ \E id \in DOMAIN call.prev :
          /\ call.at - call.prev[id].lastSeen > 30000
          /\ id \notin DOMAIN trackedPersons

\* C4: every match of a detection to an existing track appends one sample
\* to that track's breathingBuffer.
C4_MatchAppendsSample ==
    IsUpdate =>
        \A i \in DOMAIN call.returned :
            LET id == call.returned[i]
            IN (id \in DOMAIN call.prev /\ id \notin SeqRange(call.created)) =>
                   Len(trackedPersons[id].breathingBuffer.values) >
                       Len(call.prev[id].breathingBuffer.values)

\* C5: a track last seen more than 30000 ms ago is never in the active set,
\* is deleted by the next update and is not matched by it; a track last seen
\* exactly 30000 ms ago is still active and survives the update.
C5_ActiveExpiry ==
    /\ \A id \in getActivePersons : now - trackedPersons[id].lastSeen <= 30000
    /\ \A id \in DOMAIN trackedPersons :
          now - trackedPersons[id].lastSeen = 30000 => id \in getActivePersons
    /\ IsUpdate =>
          \A id \in DOMAIN call.prev :
              IF call.at - call.prev[id].lastSeen > 30000
              THEN id \notin DOMAIN trackedPersons /\ id \notin SeqRange(call.returned)
              ELSE id \in DOMAIN trackedPersons

\* One update deleted an expired track and kept a track that was exactly
\* 30000 ms old.
C5_Witness ==
    /\ IsUpdate
    /\ \E id \in DOMAIN call.prev :
          call.at - call.prev[id].lastSeen > 30000 /\ id \notin DOMAIN trackedPersons
    /\ \E id \in DOMAIN call.prev :
          call.at - call.prev[id].lastSeen = 30000 /\ id \in getActivePersons

----------------------------------------------------------------------------
(* The persistent patient store *)

\* C6: after cleanupOldPersistentPatients has run, no patient that was last
\* reported as detected more than 300000 ms ago is in the persistent store.
C6_PersistentExpiry ==
    call.op = "cleanup" =>
        \A id \in getAllPersistentPatients :
            now - lastDetected[id].at <= 300000

\* C7: a patient last stored as detected less than 30000 ms ago is in the
\* persistent store with the vital signs stored then; a call of
\* updatePersistentPatientIfActive with isCurrentlyDetected = false changes
\* nothing but the ts of the entry of that patient and creates no entry.
C7_OcclusionTolerance ==
    /\ \A id \in DOMAIN lastDetected :
          now - lastDetected[id].at < 30000 =>
              /\ id \in getAllPersistentPatients
              /\ VitalsOf(persistentPatients[id]) = lastDetected[id].vitals
    /\ (call.op = "updateIfActive" /\ ~call.isCurrentlyDetected) =>
          /\ DOMAIN persistentPatients = DOMAIN call.prev
          /\ \A id \in DOMAIN call.prev :
                IF id = call.patient.id
                THEN [persistentPatients[id] EXCEPT !.ts = call.prev[id].ts] = call.prev[id]
                ELSE persistentPatients[id] = call.prev[id]

\* A patient out of frame for a short while was reported as not detected,
\* with other vital signs than the stored ones, after a cleanup ran.
C7_Witness ==
    /\ call.op = "updateIfActive"
    /\ ~call.isCurrentlyDetected
    /\ call.patient.id \in DOMAIN call.prev
    /\ VitalsOf(call.patient) # VitalsOf(call.prev[call.patient.id])
    /\ now - lastDetected[call.patient.id].at > 0
    /\ now - lastDetected[call.patient.id].at < 30000
    /\ persistentPatients[call.patient.id].ts = now
    /\ \E id \in PatientIds : id \notin DOMAIN persistentPatients

----------------------------------------------------------------------------
(* The doctor override of VideoDetect *)

HasOverride(id) ==
    id \in DOMAIN detectedPersons /\ detectedPersons[id].doctorOverride # NoOverride

\* C8: whenever a person has a doctor override, the category drawn for the
\* person by a detection frame and the category of the person's badge are
\* the override's category; without an override the badge shows the
\* rule-based category.
C8_OverridePrecedence ==
    /\ \A id \in DOMAIN canvas :
          canvas[id].override # NoOverride =>
              canvas[id].triageText = canvas[id].override.category
    /\ \A id \in DOMAIN detectedPersons :
          triageBadge(detectedPersons[id]) =
              IF HasOverride(id) THEN detectedPersons[id].doctorOverride.category
              ELSE detectedPersons[id].triageCategory

\* C9: a person that has an override keeps having one through every step
\* but clearOverride for that person.
C9_OverrideKept ==
    [][\A id \in PredIds :
          (HasOverride(id) /\ ~HasOverride(id)') => ClearOverride(id)]_vars

----------------------------------------------------------------------------
(* The rule-based triage of CameraAnalysis *)

\* The rule-based decisions are those of the current patients.
RuleBased == ~connected /\ Len(patients) > 0

\* C10: a patient with breathing === false, whatever its rr_bpm, gets RED
\* with reason "No breathing detected" and confidence 0.9.
C10_NoBreathingIsRed ==
    RuleBased =>
        \A i \in DOMAIN patients :
            patients[i].breathing = "false" =>
                LET d == mockTriageDecisions[patients[i].id]
                IN /\ d.category = "RED"
                   /\ d.reason = "No breathing detected"
                   /\ d.confidence = 90

\* The decision stored for patient p by the rule-based triage.
StoredDecision(p) ==
    LET d == mockTriageDecisions[p.id]
    IN Decision(d.category, d.reason, d.confidence)

\* The category and confidence the rate rules give a rate rr.
RateCategory(rr) ==
    IF rr > 30 \/ rr < 8 THEN "RED"
    ELSE IF rr > 25 \/ rr < 12 THEN "YELLOW"
    ELSE "GREEN"

RateConfidence(rr) ==
    IF rr > 30 \/ rr < 8 THEN 90
    ELSE IF rr > 25 \/ rr < 12 THEN 80
    ELSE 70

\* C11: for a patient with a numeric rr_bpm and breathing not false the
\* decision before the movement adjustment is RED/0.9 with the rate in its
\* reason for rr > 30 or rr < 8, else YELLOW/0.8 for rr > 25 or rr < 12, else
\* GREEN/0.7; and it is the decision stored when movement is not "none".
C11_RateRules ==
    RuleBased =>
        \A i \in DOMAIN patients :
            LET p == patients[i]
                rr == p.rr_bpm.value
                d == BreathingRule(p)
            IN (p.rr_bpm.kind = "number" /\ p.breathing # "false") =>
                  /\ d.category = RateCategory(rr)
                  /\ d.confidence = RateConfidence(rr)
                  /\ d.category = "RED" =>
                        d.reason = "Critical breathing rate: " \o ToString(rr) \o " bpm"
                  /\ p.movement # "none" => StoredDecision(p) = d

\* The boundary rates 8 and 30 are classified YELLOW, 12 and 25 GREEN.
C11_Witness ==
    /\ RuleBased
    /\ patients[1].breathing = "true"
    /\ patients[1].movement = "low"
    /\ \/ patients[1].rr_bpm = Num(8) /\ mockTriageDecisions[1].category = "YELLOW"
       \/ patients[1].rr_bpm = Num(25) /\ mockTriageDecisions[1].category = "GREEN"

\* C12: a decision the rules made GREEN is stored as YELLOW with
\* " - No movement detected" appended exactly when movement is "none"; a RED
\* or YELLOW decision is stored unchanged whatever the movement is.
C12_MovementAdjustment ==
    RuleBased =>
        \A i \in DOMAIN patients :
            LET p == patients[i]
                before == BreathingRule(p)
                after == StoredDecision(p)
            IN IF before.category = "GREEN" /\ p.movement = "none"
               THEN /\ after.category = "YELLOW"
                    /\ after.reason = before.reason \o " - No movement detected"
                    /\ after.confidence = before.confidence
               ELSE after = before

C12_Witness ==
    /\ RuleBased
    /\ patients[1].movement = "none"
    /\ patients[1].rr_bpm = Num(16)
    /\ mockTriageDecisions[1].category = "YELLOW"
    /\ mockTriageDecisions[1].reason = "Normal breathing rate: 16 bpm - No movement detected"

\* C13: every patient of the list has a stored decision whose category is
\* RED, YELLOW or GREEN and whose confidence is between 0 and 1.
C13_Total ==
    RuleBased =>
        \A i \in DOMAIN patients :
            /\ patients[i].id \in DOMAIN mockTriageDecisions
            /\ mockTriageDecisions[patients[i].id].category \in {"RED", "YELLOW", "GREEN"}
            /\ mockTriageDecisions[patients[i].id].confidence \in 0 .. 100

C13_Witness ==
    /\ RuleBased
    /\ patients[1].rr_bpm = UndefinedV
    /\ patients[1].breathing = "null"
    /\ patients[1].movement = "unknown"
    /\ mockTriageDecisions[1].category = "YELLOW"
    /\ mockTriageDecisions[1].confidence = 50

----------------------------------------------------------------------------
(* PersonTracker.update on an empty list; calculateIoU *)

EmptyUpdate(c) == c.op = "update" /\ c.detections = <<>>

\* C18: update([]) called again at the same millisecond leaves the tracks,
\* the id counter and the allocated ids as the first call left them, and
\* both calls return an empty list.
C18_EmptyTickIdempotent ==
    [][(EmptyUpdate(call) /\ EmptyUpdate(call') /\ call'.at = call.at) =>
          /\ trackedPersons' = trackedPersons
          /\ nextId' = nextId
          /\ allocated' = allocated
          /\ call.returned = <<>>
          /\ call'.returned = <<>>]_vars

\* A second update([]) after a first one that deleted an expired track and
\* kept another.
C18_Witness ==
    /\ EmptyUpdate(call)
    /\ call.repeated
    /\ call.prev = trackedPersons
    /\ trackedPersons # <<>>
    /\ \E id \in allocated : id \notin DOMAIN trackedPersons

\* The pairs (track box, detection box) the last update compared, and the
\* pairs of its detections.
ComparedPairs ==
    IF ~IsUpdate THEN {}
    ELSE LET dets == SeqRange(call.detections)
             tracks == {call.prev[id].bbox : id \in DOMAIN call.prev}
         IN (tracks \cup dets) \X dets

\* Area of the intersection of two boxes.
IntersectionArea(a, b) ==
    Max(0, Min(a.x + a.w, b.x + b.w) - Max(a.x, b.x)) *
    Max(0, Min(a.y + a.h, b.y + b.h) - Max(a.y, b.y))

UnionArea(a, b) == a.w * a.h + b.w * b.h - IntersectionArea(a, b)

IsZero(r) == r[1] = 0 /\ r[2] > 0
IsOne(r) == r[1] = r[2] /\ r[2] > 0
SameRatio(r, s) == r[2] > 0 /\ s[2] > 0 /\ r[1] * s[2] = s[1] * r[2]

\* The value both implementations return for a pair of boxes.
IoUValueOk(a, b, r) ==
    IF IntersectionArea(a, b) = 0 THEN IsZero(r)
    ELSE SameRatio(r, <<IntersectionArea(a, b), UnionArea(a, b)>>)

\* C19 (as stated): IoU is 0 for every pair whose intersection has zero
\* area and 1 for every pair of identical rectangles, w >= 0 and h >= 0.
C19_IoUZeroAndOne ==
    \A pr \in ComparedPairs :
        /\ IntersectionArea(pr[1], pr[2]) = 0 => IsZero(calculateIoU(pr[1], pr[2]))
        /\ pr[1] = pr[2] => IsOne(calculateIoU(pr[1], pr[2]))

\* C19 (amended): IoU is area(A n B) / area(A u B), 0 for every pair whose
\* intersection has zero area, two identical rectangles of zero area
\* included, and 1 for every pair of identical rectangles with w > 0 and
\* h > 0; the same for calculateIOU of the upload analysis.
C19_IoUZeroAndOnePositive ==
    \A pr \in ComparedPairs :
        /\ IoUValueOk(pr[1], pr[2], calculateIoU(pr[1], pr[2]))
        /\ IoUValueOk(pr[1], pr[2], calculateIOU(pr[1], pr[2]))
        /\ (pr[1] = pr[2] /\ pr[1].w > 0 /\ pr[1].h > 0) =>
              /\ IsOne(calculateIoU(pr[1], pr[2]))
              /\ IsOne(calculateIOU(pr[1], pr[2]))

\* An update compared the zero-area box of a track with an identical
\* detection, found no match and gave the detection a new id.
C19_Witness ==
    /\ IsUpdate
    /\ call.detections = <<BoxZ>>
    /\ \E id \in DOMAIN call.prev :
          call.prev[id].bbox = BoxZ /\ call.at - call.prev[id].lastSeen <= 30000
    /\ Len(call.created) = 1
    /\ <<BoxZ, BoxZ>> \in ComparedPairs

\* C20: calculateIoU(A, B) = calculateIoU(B, A).
C20_IoUSymmetric ==
    \A pr \in ComparedPairs :
        calculateIoU(pr[1], pr[2]) = calculateIoU(pr[2], pr[1])

\* An update compared two different overlapping boxes of different areas.
C20_Witness ==
    /\ <<BoxA, BoxB>> \in ComparedPairs
    /\ BoxA \in {call.prev[id].bbox : id \in DOMAIN call.prev}
    /\ calculateIoU(BoxA, BoxB) = <<4, 8>>

----------------------------------------------------------------------------
(* The signal analysis and the buffers of usePerception *)

\* The breathing values and the velocities held for a published patient.
ValuesOf(p) == breathingBuffers[p.id].values
VelocitiesOf(p) == movementBuffers[p.id].velocities

\* C14: a patient whose breathing buffer holds fewer than 30 samples is
\* published with rr_bpm = null and breathing = null; with 30 samples or
\* more the analysis decides, and breathing is true or false.
C14_InsufficientData ==
    \A i \in DOMAIN perceptionPatients :
        LET p == perceptionPatients[i]
        IN /\ p.id \in DOMAIN breathingBuffers
           /\ Len(ValuesOf(p)) < 30 => (p.rr_bpm = NullV /\ p.breathing = "null")
           /\ Len(ValuesOf(p)) >= 30 => p.breathing \in {"true", "false"}

\* The thirtieth sample has just arrived and the analysis has decided.
C14_Witness ==
    /\ frames = 30
    /\ Len(perceptionPatients) = 1
    /\ Len(breathingBuffers[0].values) = 30
    /\ perceptionPatients[1].breathing = "false"

\* C15: with at least 30 samples, a confidence below 0.3 gives rr_bpm = null
\* and breathing = (max - min > 0.01); a confidence of 0.3 or more gives the
\* rounded rate and breathing = true; so breathing = false never comes with
\* a rate.
C15_ConfidenceGate ==
    \A i \in DOMAIN perceptionPatients :
        LET p == perceptionPatients[i]
            sp == BreathingSpectrum(ValuesOf(p))
        IN /\ Len(ValuesOf(p)) >= 30 =>
                 IF 10 * sp.confidence[1] < 3 * sp.confidence[2]
                 THEN /\ p.rr_bpm = NullV
                      /\ p.breathing = IF 100 * sp.amplitude > 256 THEN "true" ELSE "false"
                 ELSE /\ p.rr_bpm = Num(Round(sp.rr_bpm))
                      /\ p.breathing = "true"
           /\ ~(p.breathing = "false" /\ p.rr_bpm.kind = "number")

\* A published rate, and the chest positions just above the gate.
C15_Witness ==
    /\ Len(perceptionPatients) = 1
    /\ Len(breathingBuffers[0].values) >= 30
    /\ scene.base = 77
    /\ perceptionPatients[1].rr_bpm.kind = "number"
    /\ perceptionPatients[1].breathing = "true"

\* C16: with fewer than 10 velocities the label is "unknown"; otherwise it is
\* "purposeful" iff avg > 0.01 and max > 0.02, else "low" iff avg > 0.005,
\* else "none".
C16_MovementLabel ==
    \A i \in DOMAIN perceptionPatients :
        LET p == perceptionPatients[i]
            v == VelocitiesOf(p)
            n == Len(v)
            total == SumTo(v, n)
        IN p.movement =
               IF n < 10 THEN "unknown"
               ELSE IF 100 * total > 1024 * n /\ 100 * MaxOf(v) > 2 * 1024 THEN "purposeful"
               ELSE IF 1000 * total > 5 * 1024 * n THEN "low"
               ELSE "none"

\* An average above 0.01 with no velocity above 0.02 is labelled "low".
C16_Witness ==
    /\ Len(perceptionPatients) = 1
    /\ Len(movementBuffers[0].velocities) >= 10
    /\ scene.speed = 11
    /\ perceptionPatients[1].movement = "low"

\* The last n elements of q (all of q when it is shorter).
LastN(q, n) == SubSeq(q, Len(q) - Min(n, Len(q)) + 1, Len(q))

\* C17: a breathing buffer never holds more than 150 samples and a movement
\* buffer never more than 50, the two arrays of a buffer have the same
\* length, and a buffer holds the most recent samples in arrival order.
C17_BoundedFifo ==
    /\ \A id \in DOMAIN breathingBuffers :
          LET b == breathingBuffers[id]
          IN /\ Len(b.values) <= 150
             /\ Len(b.timestamps) = Len(b.values)
             /\ b.values = LastN([k \in DOMAIN arrived.breathing |-> arrived.breathing[k].v], 150)
             /\ b.timestamps =
                    LastN([k \in DOMAIN arrived.breathing |-> arrived.breathing[k].t], 150)
    /\ \A id \in DOMAIN movementBuffers :
          LET b == movementBuffers[id]
          IN /\ Len(b.velocities) <= 50
             /\ Len(b.timestamps) = Len(b.velocities)
             /\ b.velocities = LastN([k \in DOMAIN arrived.movement |-> arrived.movement[k].v], 50)
             /\ b.timestamps =
                    LastN([k \in DOMAIN arrived.movement |-> arrived.movement[k].t], 50)

\* Both buffers are full and each has evicted samples.
C17_Witness ==
    /\ 0 \in DOMAIN breathingBuffers
    /\ Len(breathingBuffers[0].values) = 150
    /\ Len(arrived.breathing) > 151
    /\ Len(movementBuffers[0].velocities) = 50
    /\ Len(arrived.movement) > 51
    /\ scene.amp > 0

----------------------------------------------------------------------------
(* Degenerate detections; the rules for a missing rate *)

ZeroArea(b) == b.w = 0 \/ b.h = 0

\* C21: a detection of zero area has IoU 0 with every track, is matched to
\* no track, neither an older one nor one created earlier in the call, and
\* gets a new track with a new id.
C21_DegenerateDetection ==
    IsUpdate =>
        \A i \in DOMAIN call.detections :
            ZeroArea(call.detections[i]) =>
                /\ \A id \in DOMAIN call.prev :
                      IsZero(calculateIoU(call.prev[id].bbox, call.detections[i]))
                /\ call.returned[i] \in SeqRange(call.created)
                /\ call.returned[i] \notin call.prevAllocated
                /\ \A j \in 1 .. i - 1 : call.returned[j] # call.returned[i]
                /\ call.returned[i] \in DOMAIN trackedPersons
                /\ trackedPersons[call.returned[i]].bbox = call.detections[i]

\* A zero-area detection arrived while a live track had the very same box.
C21_Witness ==
    /\ IsUpdate
    /\ \E i \in DOMAIN call.detections, id \in DOMAIN call.prev :
          /\ ZeroArea(call.detections[i])
          /\ call.prev[id].bbox = call.detections[i]
          /\ call.at - call.prev[id].lastSeen <= 30000
          /\ call.returned[i] # id
          /\ call.returned[i] \in DOMAIN trackedPersons

\* C30: without a rate (rr_bpm null or undefined) the decision before the
\* movement adjustment is GREEN, "Breathing detected", 0.7 for breathing
\* true and YELLOW, "Breathing status unknown", 0.5 for breathing null; it
\* is the decision stored unless the movement adjustment applies.
C30_NoRateRules ==
    RuleBased =>
        \A i \in DOMAIN patients :
            LET p == patients[i]
                d == BreathingRule(p)
            IN p.rr_bpm.kind # "number" =>
                  /\ p.breathing = "true" => d = Decision("GREEN", "Breathing detected", 70)
                  /\ p.breathing = "null" =>
                        d = Decision("YELLOW", "Breathing status unknown", 50)
                  /\ (p.breathing # "false" /\ p.movement # "none") => StoredDecision(p) = d

C30_Witness ==
    /\ RuleBased
    /\ patients[1].rr_bpm = NullV
    /\ patients[1].breathing = "true"
    /\ patients[1].movement = "purposeful"
    /\ mockTriageDecisions[1].category = "GREEN"
    /\ mockTriageDecisions[1].reason = "Breathing detected"

----------------------------------------------------------------------------
(* The greedy matching of PersonTracker.update *)

\* The tracks detection i of the last call could be matched to: those the
\* call had not matched yet whose IoU with the detection exceeds 0.3.
Candidates(i) ==
    LET seen == call.steps[i]
    IN {id \in DOMAIN seen.tp \ seen.used :
           OverThreshold(seen.tp[id].bbox, call.detections[i])}

IoUAt(i, id) == calculateIoU(call.steps[i].tp[id].bbox, call.detections[i])

\* C29: each detection, in batch order, is matched to a track not yet
\* matched in the call whose IoU with it is above 0.3 and maximal, the first
\* such track in insertion (id) order on a tie; without such a track, a
\* track with IoU exactly 0.3 included, it gets a new track.
C29_GreedySelection ==
    IsUpdate =>
        \A i \in DOMAIN call.detections :
            IF Candidates(i) = {}
            THEN call.returned[i] \notin DOMAIN call.steps[i].tp
            ELSE LET chosen == call.returned[i]
                 IN /\ chosen \in Candidates(i)
                    /\ \A other \in Candidates(i) :
                          /\ ~RatioGt(IoUAt(i, other), IoUAt(i, chosen))
                          /\ SameRatio(IoUAt(i, other), IoUAt(i, chosen)) => chosen <= other

\* A detection with the same IoU 1/2 to two unmatched tracks took the
\* first of them, and left alone a third track with IoU exactly 3/10.
C29_Witness ==
    /\ IsUpdate
    /\ call.detections = <<BoxR, BoxA>>
    /\ Candidates(2) = {1, 2}
    /\ SameRatio(IoUAt(2, 1), IoUAt(2, 2))
    /\ call.returned[2] = 1
    /\ \E id \in DOMAIN call.steps[2].tp :
          /\ call.steps[2].tp[id].bbox = BoxR
          /\ IoUAt(2, id) = <<3, 10>>
          /\ id \notin Candidates(2)

-----------------------------------------------------------------------------
(* The breathing spectrum: peak, confidence, rate and filter *)

\* The bins of a spectrum whose frequency lies in [0.1, 0.7], in order, and
\* their magnitudes.
InRangeBins(fft) ==
    SortedSeq({i \in DOMAIN fft.frequencies : InBreathingBand(fft.frequencies[i])})
InRangeMagnitudes(fft) ==
    [j \in DOMAIN InRangeBins(fft) |-> fft.magnitudes[InRangeBins(fft)[j]]]

\* The published patients whose buffer is long enough to be analysed.
Analysed == {i \in DOMAIN perceptionPatients : Len(ValuesOf(perceptionPatients[i])) >= 30}

\* C25: the magnitude taken as the peak is the maximum over the bins whose
\* frequency lies in [0.1, 0.7], the reported frequency is the frequency of
\* the bin holding that magnitude, and a published rr_bpm is that frequency
\* times 60, rounded.
C25_PeakInBand ==
    \A i \in Analysed :
        LET p == perceptionPatients[i]
            sp == BreathingSpectrum(ValuesOf(p))
            bins == SeqRange(InRangeBins(sp.fft))
        IN /\ sp.peakMagnitude = MaxOf(InRangeMagnitudes(sp.fft))
           /\ \E b \in bins : /\ sp.fft.frequencies[b] = sp.peakFreq
                               /\ sp.fft.magnitudes[b] = sp.peakMagnitude
           /\ p.rr_bpm.kind = "number" =>
                  p.rr_bpm = Num(Round(<<sp.peakFreq[1] * 60, sp.peakFreq[2]>>))

\* C26: the confidence compared with 0.3 is the largest in-range magnitude
\* divided by the mean of the in-range magnitudes, whenever these are not
\* all zero.
C26_ConfidenceIsPeakOverMean ==
    \A i \in Analysed :
        LET sp == BreathingSpectrum(ValuesOf(perceptionPatients[i]))
            mags == InRangeMagnitudes(sp.fft)
            total == SumTo(mags, Len(mags))
        IN total > 0 => SameRatio(sp.confidence, <<MaxOf(mags) * Len(mags), total>>)

\* C27: a chest position following a 0.25 Hz sinusoid, sampled at 10 Hz for
\* 30 samples or more, is published with rr_bpm within 2 of 15 (which needs
\* a confidence of 0.3 or more).
C27_RateRoundTrip ==
    \A i \in Analysed :
        LET p == perceptionPatients[i]
        IN scene = SineScene =>
               /\ p.rr_bpm.kind = "number"
               /\ p.rr_bpm.value >= 13
               /\ p.rr_bpm.value <= 17
               /\ ~RatioLt(BreathingSpectrum(ValuesOf(p)).confidence, <<3, 10>>)

\* All samples of q are the same non-zero value: a 0 Hz component only.
ConstantSeries(q) == q # <<>> /\ q[1] # 0 /\ \A k \in DOMAIN q : q[k] = q[1]

\* C28: what applyBandPassFilter returns for a non-zero constant series is
\* smaller in magnitude than the series, sample by sample.
C28_FilterAttenuates ==
    \A i \in Analysed :
        LET values == ValuesOf(perceptionPatients[i])
            filtered == applyBandPassFilter(values)
        IN ConstantSeries(values) =>
               /\ Len(filtered) = Len(values)
               /\ \A k \in DOMAIN values : Abs(filtered[k]) < Abs(values[k])

-----------------------------------------------------------------------------
(* Returned tracks and the tracker's records *)

\* What the caller holds is what the tracker stores, for the ids still in
\* the Map.
HeldAsSeen == \A id \in DOMAIN held \cap DOMAIN trackedPersons : trackedPersons[id] = held[id]

\* C22: a track object returned by update or getActivePersons is not the
\* tracker's record: a later update leaves the returned value as it was,
\* and a step in which the caller changes what it holds leaves
\* trackedPersons as it was.
C22_NotExposedByReference ==
    /\ []HeldAsSeen
    /\ [][held' # held => trackedPersons' = trackedPersons]_vars

-----------------------------------------------------------------------------
(* VideoUploadAnalysis: the tracker of the uploaded-video view *)

\* The ids `person_<n>` and `mp_person_<i>`.
PersonId(n) == <<"person", n>>
MpPersonId(i) == <<"mp_person", i>>

UploadBoxes == {BoxA, BoxB, BoxD}
UploadBatches == UNION {[1..n -> UploadBoxes] : n \in 0..MaxDets}

\* Elapsed milliseconds between two observations of performance.now().
UploadClockSteps == {500, 1000}

\* processMediaPipeResults: one PatientState per pose, with the temporary
\* id of its index.  (The fields rr_bpm, breathing, movement, signal_q and
\* det_conf play no part in the tracking and are left out.)
processMediaPipeResults(boxes, timestamp) ==
    [i \in DOMAIN boxes |-> [id |-> MpPersonId(i - 1), bbox |-> boxes[i], ts |-> timestamp]]

\* Map.set on a Map kept as the sequence of its entries in insertion order.
EntrySet(m, k, v) ==
    IF \E i \in DOMAIN m : m[i].key = k
    THEN [i \in DOMAIN m |-> IF m[i].key = k THEN [key |-> k, value |-> v] ELSE m[i]]
    ELSE Append(m, [key |-> k, value |-> v])

\* Array.from(map.values())
EntryValues(m) == [i \in DOMAIN m |-> m[i].value]

\* q.splice(i, 1)
Splice(q, i) == SubSeq(q, 1, i - 1) \o SubSeq(q, i + 1, Len(q))

NoDetection == [index |-> 0, iou |-> <<0, 1>>]

\* The inner forEach of updateTrackedPersons from detection i on:
\* if (iou > bestIou && iou > 0.3)
RECURSIVE BestDetection(_, _, _, _)
BestDetection(track, detections, i, best) ==
    IF i > Len(detections) THEN best
    ELSE LET iou == calculateIOU(track.bbox, detections[i].bbox)
         IN BestDetection(track, detections, i + 1,
                          IF RatioGt(iou, best.iou) /\ RatioGt(iou, <<3, 10>>)
                          THEN [index |-> i, iou |-> iou]
                          ELSE best)

\* { ...track, ...bestMatch, ts: timestamp }: every field of the detection,
\* its id included, replaces the field of the track.  born is the id the
\* track was created with; it is not a field of the program's objects.
SpreadMatch(track, bestMatch, timestamp) ==
    [id |-> bestMatch.id, bbox |-> bestMatch.bbox, ts |-> timestamp, born |-> track.born]

\* The outer forEach of updateTrackedPersons from entry i on.
RECURSIVE MatchTracks(_, _, _, _)
MatchTracks(entries, i, timestamp, st) ==
    IF i > Len(entries) THEN st
    ELSE LET track == entries[i].value
             best == BestDetection(track, st.unmatchedDetections, 1, NoDetection)
         IN MatchTracks(entries, i + 1, timestamp,
                IF best.index # 0
                THEN [st EXCEPT
                        !.newTrackedPersons =
                            EntrySet(st.newTrackedPersons, track.id,
                                     SpreadMatch(track, st.unmatchedDetections[best.index],
                                                 timestamp)),
                        !.unmatchedDetections = Splice(st.unmatchedDetections, best.index)]
                ELSE IF timestamp - track.ts < 1000
                THEN [st EXCEPT !.unmatchedTracks = Append(st.unmatchedTracks, track)]
                ELSE st)

\* unmatchedDetections.forEach: each becomes person_<nextTrackIdRef.current++>.
RECURSIVE AddNewTracks(_, _, _, _)
AddNewTracks(detections, i, timestamp, st) ==
    IF i > Len(detections) THEN st
    ELSE LET newId == PersonId(st.nextTrackId)
             newTrack == [id |-> newId, bbox |-> detections[i].bbox, ts |-> timestamp,
                          born |-> newId]
         IN AddNewTracks(detections, i + 1, timestamp,
                [st EXCEPT !.newTrackedPersons = EntrySet(st.newTrackedPersons, newId, newTrack),
                           !.nextTrackId = st.nextTrackId + 1,
                           !.created = Append(st.created, newId)])

\* unmatchedTracks.forEach(track => newTrackedPersons.set(track.id, track))
RECURSIVE ReAddTracks(_, _, _)
ReAddTracks(tracks, i, m) ==
    IF i > Len(tracks) THEN m
    ELSE ReAddTracks(tracks, i + 1, EntrySet(m, tracks[i].id, tracks[i]))

updateTrackedPersons(tracked, nextTrackId, currentDetections, timestamp) ==
    LET matched == MatchTracks(tracked, 1, timestamp,
                               [newTrackedPersons |-> <<>>, unmatchedTracks |-> <<>>,
                                unmatchedDetections |-> currentDetections,
                                nextTrackId |-> nextTrackId, created |-> <<>>])
        added == AddNewTracks(matched.unmatchedDetections, 1, timestamp, matched)
    IN [tracked |-> ReAddTracks(added.unmatchedTracks, 1, added.newTrackedPersons),
        nextTrackId |-> added.nextTrackId,
        created |-> added.created,
        kept |-> Len(added.unmatchedTracks)]

HandleFileSelect ==
    /\ ~videoUrl
    /\ videoUrl' = TRUE
    /\ uploadCall' = [op |-> "select"]
    /\ UNCHANGED <<now, isPlaying, trackedPersonsRef, nextTrackIdRef, lastDetectionTimeRef,
                   uploadPatients, uploadAllocated, outsideUpload>>

\* stopDetection: the tracks are dropped and the id counter starts again.
\* (uploadAllocated is the record of the ids given out, not program state.)
UploadStopDetection ==
    /\ uploadPatients' = <<>>
    /\ trackedPersonsRef' = <<>>
    /\ nextTrackIdRef' = 0

HandlePlayPause ==
    /\ videoUrl
    /\ IF isPlaying
       THEN /\ isPlaying' = FALSE
            /\ UploadStopDetection
            /\ uploadCall' = [op |-> "pause"]
       ELSE /\ isPlaying' = TRUE
            /\ uploadCall' = [op |-> "play"]
            /\ UNCHANGED <<uploadPatients, trackedPersonsRef, nextTrackIdRef>>
    /\ UNCHANGED <<now, videoUrl, lastDetectionTimeRef, uploadAllocated, outsideUpload>>

HandleVideoEnd ==
    /\ videoUrl
    /\ isPlaying
    /\ isPlaying' = FALSE
    /\ UploadStopDetection
    /\ uploadCall' = [op |-> "ended"]
    /\ UNCHANGED <<now, videoUrl, lastDetectionTimeRef, uploadAllocated, outsideUpload>>

\* detectFrame, when the loop is running and 500 ms have passed since the
\* last detection, for the poses the landmarker finds in the frame.
DetectFrame(boxes) ==
    /\ videoUrl
    /\ isPlaying
    /\ now - lastDetectionTimeRef >= 500
    /\ LET currentDetections == processMediaPipeResults(boxes, now)
           r == updateTrackedPersons(trackedPersonsRef, nextTrackIdRef, currentDetections, now)
       IN /\ lastDetectionTimeRef' = now
          /\ trackedPersonsRef' = r.tracked
          /\ nextTrackIdRef' = r.nextTrackId
          /\ uploadPatients' = EntryValues(r.tracked)
          /\ uploadAllocated' = uploadAllocated \cup SeqRange(r.created)
          /\ uploadCall' = [op |-> "detect", created |-> r.created,
                            prevAllocated |-> uploadAllocated,
                            detections |-> Len(currentDetections), kept |-> r.kept]
    /\ UNCHANGED <<now, videoUrl, isPlaying, outsideUpload>>

NextUpload ==
    \/ HandleFileSelect
    \/ HandlePlayPause
    \/ HandleVideoEnd
    \/ \E boxes \in UploadBatches : DetectFrame(boxes)
    \/ \E d \in UploadClockSteps : AdvanceClock(d)

SpecUpload == Init /\ [][NextUpload]_vars

\* C23: every track of the upload tracker is stored under the id it was
\* created with and carries that id, in the Map and in the published
\* patients, whatever detections it has been matched to since.
C23_UploadTrackContinuity ==
    /\ \A i \in DOMAIN trackedPersonsRef :
          /\ trackedPersonsRef[i].key = trackedPersonsRef[i].value.born
          /\ trackedPersonsRef[i].value.id = trackedPersonsRef[i].value.born
    /\ \A i \in DOMAIN uploadPatients : uploadPatients[i].id = uploadPatients[i].born

\* C24: an id given to a new track by updateTrackedPersons was never given
\* to a track before, also across stopDetection and a new play.
C24_UploadIdsNeverReused ==
    uploadCall.op = "detect" =>
        \A k \in DOMAIN uploadCall.created : uploadCall.created[k] \notin uploadCall.prevAllocated

-----------------------------------------------------------------------------
(* The doctor's override buttons *)

\* A step changed at most the override of person p.
OnlyOverrideOf(p) ==
    /\ DOMAIN detectedPersons' = DOMAIN detectedPersons
    /\ \A id \in DOMAIN detectedPersons :
          IF id = p
          THEN [detectedPersons'[id] EXCEPT !.doctorOverride = NoOverride] =
                   [detectedPersons[id] EXCEPT !.doctorOverride = NoOverride]
          ELSE detectedPersons'[id] = detectedPersons[id]
    /\ p \notin DOMAIN detectedPersons => detectedPersons' = detectedPersons

\* C31: handleDoctorOverride(p) makes the new override the override of p,
\* whatever p had before, and clearOverride(p) leaves p without override;
\* both leave every other person, and the other fields of p, as they were,
\* and change nothing when p is not listed.
C31_OverrideLocal ==
    [][\A p \in ButtonIds :
          /\ \A c \in OverrideCategories :
                HandleDoctorOverride(p, c) =>
                    /\ OnlyOverrideOf(p)
                    /\ p \in DOMAIN detectedPersons =>
                           detectedPersons'[p].doctorOverride =
                               [category |-> c, reason |-> "override", timestamp |-> now]
          /\ ClearOverride(p) =>
                /\ OnlyOverrideOf(p)
                /\ p \in DOMAIN detectedPersons =>
                       detectedPersons'[p].doctorOverride = NoOverride]_vars

\* Two persons are listed, both with an override; the override of person 0
\* is no longer the one the last frame was drawn with.
C31_Witness ==
    /\ {0, 1} \subseteq DOMAIN detectedPersons
    /\ 0 \in DOMAIN canvas
    /\ canvas[0].override.category = "RED"
    /\ detectedPersons[0].doctorOverride.category = "GREEN"
    /\ detectedPersons[1].doctorOverride.category = "RED"

-----------------------------------------------------------------------------
(* Timestamps and velocities of the signal buffers *)

\* The samples of person 0 in a Map of buffers.
TimestampsIn(buffers) == IF 0 \in DOMAIN buffers THEN buffers[0].timestamps ELSE <<>>
VelocitiesIn(buffers) == IF 0 \in DOMAIN buffers THEN buffers[0].velocities ELSE <<>>

\* C32: a frame whose timestamp is earlier than the last timestamp of the
\* breathing buffer is rejected: neither buffer changes and no patient is
\* published from it.
C32_NonMonotonicRejected ==
    [][(TimestampsIn(breathingBuffers) # <<>> /\
        now' < TimestampsIn(breathingBuffers)[Len(TimestampsIn(breathingBuffers))]) =>
           /\ breathingBuffers' = breathingBuffers
           /\ movementBuffers' = movementBuffers
           /\ perceptionPatients' = perceptionPatients]_vars

\* The movement buffer never holds more than min(frames - 1, 50)
\* velocities, and none is negative.
VelocitiesBounded ==
    LET v == VelocitiesIn(movementBuffers)
    IN /\ Len(v) <= 50
       /\ frames > 0 => Len(v) <= frames - 1
       /\ frames = 0 => v = <<>>
       /\ \A k \in DOMAIN v : v[k] >= 0

\* C33: a frame changes the velocities of the movement buffer exactly when
\* the person has a previous position and time has passed since it; the
\* velocity appended is the displacement of the centroid per second; so
\* the buffer holds at most min(frames - 1, 50) velocities, none negative.
C33_VelocityOnlyForElapsedTime ==
    /\ []VelocitiesBounded
    /\ [][LET due == 0 \in DOMAIN lastPositions /\ now' > lastPositions[0].timestamp
              v == VelocitiesIn(movementBuffers')
          IN IF due
             THEN /\ v # <<>>
                  /\ v[Len(v)] * (now' - lastPositions[0].timestamp) =
                         Abs(CentroidAt(scene, frames') - lastPositions[0].x) * 1000
                  /\ arrived'.movement # arrived.movement
             ELSE /\ v = VelocitiesIn(movementBuffers)
                  /\ arrived'.movement = arrived.movement]_vars

\* Frames arrived without elapsed time, or with the clock set back, and the
\* buffer holds fewer velocities than frames, some of them positive.
C33_Witness ==
    /\ scene = BackScene
    /\ frames >= 8
    /\ Len(VelocitiesIn(movementBuffers)) > 0
    /\ Len(VelocitiesIn(movementBuffers)) < frames - 1
    /\ \E k \in DOMAIN VelocitiesIn(movementBuffers) : VelocitiesIn(movementBuffers)[k] > 0

-----------------------------------------------------------------------------
(* The list update returns *)

\* C34: update returns one entry per detection, in batch order: entry i is a
\* track of the tracker that carries the bbox of detection i and the time
\* of the call as lastSeen.
C34_OneEntryPerDetection ==
    IsUpdate =>
        /\ Len(call.returned) = Len(call.detections)
        /\ \A i \in DOMAIN call.detections :
              /\ call.returned[i] \in DOMAIN trackedPersons
              /\ trackedPersons[call.returned[i]].bbox = call.detections[i]
              /\ trackedPersons[call.returned[i]].lastSeen = call.at

-----------------------------------------------------------------------------
(* The range of the reported rate *)

\* C35: a published rr_bpm that is not null is an integer from 6 to 42,
\* whatever the 30 to 150 samples of the buffer are.
C35_RateRange ==
    \A i \in DOMAIN perceptionPatients :
        LET p == perceptionPatients[i]
        IN p.rr_bpm.kind = "number" =>
               /\ p.rr_bpm.value \in Int
               /\ p.rr_bpm.value >= 6
               /\ p.rr_bpm.value <= 42

\* The rate at the upper end is published from a full buffer whose
\* largest sample among the first 91 is the last of them.
C35_Witness ==
    /\ scene = RampScene
    /\ Len(perceptionPatients) = 1
    /\ Len(breathingBuffers[0].values) = 150
    /\ perceptionPatients[1].rr_bpm = Num(42)

-----------------------------------------------------------------------------
(* The Map of the upload tracker *)

\* C36: after updateTrackedPersons every entry of the tracked Map is stored
\* under the id of its value, no two entries carry the same id, and the Map
\* holds one entry per detection of the call and one per unmatched track
\* updated less than 1000 ms ago.
C36_UploadMapConsistent ==
    /\ \A i \in DOMAIN trackedPersonsRef :
          trackedPersonsRef[i].key = trackedPersonsRef[i].value.id
    /\ \A i, j \in DOMAIN trackedPersonsRef :
          trackedPersonsRef[i].value.id = trackedPersonsRef[j].value.id => i = j
    /\ uploadCall.op = "detect" =>
          Len(trackedPersonsRef) = uploadCall.detections + uploadCall.kept


----------------------------------------------------------------------------
(* useWebSocket, the first hook of part_000: connect, disconnect and the   *)
(* handlers of its sockets.  Handlers are operators on the hook's refs and *)
(* state; an action applies a handler when the browser dispatches it.      *)

MaxSockets == 3     \* WebSockets created in one run

NormalClosure == 1000       \* close code of close(1000, 'Manual disconnect')
AbnormalClosure == 1006     \* close code of a connection that failed or dropped
CloseCodes == {NormalClosure, AbnormalClosure}

Live == {"CONNECTING", "OPEN"}

\* wsRef.current?.readyState
ReadyState(h) == IF h.wsRef = 0 THEN "none" ELSE h.sockets[h.wsRef].readyState

\* The id setTimeout / setInterval returns: one that names no other timer.
FreshId(used) == CHOOSE i \in 1 .. Cardinality(used) + 1 : i \notin used

\* const ws = new WebSocket(url); wsRef.current = ws
NewSocket(h) ==
    [h EXCEPT !.sockets = Append(@, [readyState |-> "CONNECTING", established |-> FALSE]),
              !.wsRef = Len(h.sockets) + 1]

\* ws.close(): a live socket starts closing, its close event comes later.
CloseSocket(h, s) ==
    [h EXCEPT !.sockets[s].readyState = IF @ \in Live THEN "CLOSING" ELSE @]

\* clearTimeout(reconnectTimeoutRef.current); reconnectTimeoutRef.current = null
ClearReconnect(h) ==
    IF h.reconnectTimeoutRef = 0 THEN h
    ELSE [h EXCEPT !.timers = @ \ {h.reconnectTimeoutRef}, !.reconnectTimeoutRef = 0]

\* clearInterval(heartbeatIntervalRef.current); heartbeatIntervalRef.current = null
ClearHeartbeat(h) ==
    IF h.heartbeatIntervalRef = 0 THEN h
    ELSE [h EXCEPT !.intervals = {i \in @ : i.id # h.heartbeatIntervalRef},
                   !.heartbeatIntervalRef = 0]

\* reconnectTimeoutRef.current = setTimeout(() => connect(), ...)
ScheduleReconnect(h) ==
    LET id == FreshId(h.timers \cup {h.reconnectTimeoutRef})
    IN  [h EXCEPT !.timers = @ \cup {id}, !.reconnectTimeoutRef = id]

connect(h) == IF ReadyState(h) = "OPEN" THEN h ELSE NewSocket(h)

onopen(h, s) ==
    LET id == FreshId({i.id : i \in h.intervals} \cup {h.heartbeatIntervalRef})
    IN  [h EXCEPT !.connected = TRUE, !.error = FALSE,
                  !.intervals = @ \cup {[id |-> id, ws |-> s]},
                  !.heartbeatIntervalRef = id]

onclose(h) == ScheduleReconnect(ClearHeartbeat([h EXCEPT !.connected = FALSE]))

onerror(h) == [h EXCEPT !.error = TRUE]

disconnect(h) ==
    LET cleared == ClearHeartbeat(ClearReconnect(h))
        closed == IF cleared.wsRef = 0 THEN cleared
                  ELSE [CloseSocket(cleared, cleared.wsRef) EXCEPT !.wsRef = 0]
    IN  [closed EXCEPT !.connected = FALSE]

outsideSocket ==
    <<clockVars, trackerVars, call, storeVars, videoVars, triageVars, perceptionVars,
      callerVars, uploadVars>>

\* One step of the hook: handler op has turned the hook into h.
HookStep(op, code, h, disconnected) ==
    /\ Len(h.sockets) <= MaxSockets
    /\ hook' = h
    /\ hookCall' = [op |-> op, code |-> code, disconnected |-> disconnected]
    /\ UNCHANGED outsideSocket

\* The browser's part of a socket event: the socket changes its readyState.
Becomes(h, s, state) ==
    [h EXCEPT !.sockets[s] = [readyState |-> state,
                              established |-> @.established \/ state = "OPEN"]]

\* The close codes a close event of socket s can carry: a socket that never
\* opened fails with 1006, an open one closes with the code of the closing
\* handshake or drops with 1006.
EventCodes(h, s) == IF h.sockets[s].established THEN CloseCodes ELSE {AbnormalClosure}

\* useEffect(() => { connect(); return () => disconnect() }, ...)
AutoConnect ==
    /\ ~hook.mounted
    /\ HookStep("effect", 0, [connect(hook) EXCEPT !.mounted = TRUE], FALSE)

Cleanup ==
    /\ hook.mounted
    /\ HookStep("cleanup", 0, [disconnect(hook) EXCEPT !.mounted = FALSE], TRUE)

\* The component calls the connect() the hook returns.
CallConnect == hook.mounted /\ HookStep("connect", 0, connect(hook), FALSE)

CallDisconnect == hook.mounted /\ HookStep("disconnect", 0, disconnect(hook), TRUE)

SocketOpens ==
    \E s \in DOMAIN hook.sockets :
        /\ hook.sockets[s].readyState = "CONNECTING"
        /\ HookStep("onopen", 0, onopen(Becomes(hook, s, "OPEN"), s), hookCall.disconnected)

\* The connection cannot be established: an error event, then a close event.
SocketFails ==
    \E s \in DOMAIN hook.sockets :
        /\ hook.sockets[s].readyState = "CONNECTING"
        /\ HookStep("onclose", AbnormalClosure, onclose(onerror(Becomes(hook, s, "CLOSED"))),
                    hookCall.disconnected)

\* The close event of a socket the server closed or the hook is closing.
SocketCloses ==
    \E s \in DOMAIN hook.sockets : \E code \in EventCodes(hook, s) :
        /\ hook.sockets[s].readyState \in {"OPEN", "CLOSING"}
        /\ HookStep("onclose", code, onclose(Becomes(hook, s, "CLOSED")), hookCall.disconnected)

\* The reconnect timeout set by onclose fires: () => connect()
ReconnectFires ==
    \E t \in hook.timers :
        HookStep("reconnect", 0, connect([hook EXCEPT !.timers = @ \ {t}]),
                 hookCall.disconnected)

NextSocket ==
    \/ AutoConnect
    \/ Cleanup
    \/ CallConnect
    \/ CallDisconnect
    \/ SocketOpens
    \/ SocketFails
    \/ SocketCloses
    \/ ReconnectFires

SpecSocket == Init /\ [][NextSocket]_vars

\* The close events and timers of the hook that are still to come.
ClosePending == \E s \in DOMAIN hook.sockets : hook.sockets[s].readyState = "CLOSING"
LiveSockets == {s \in DOMAIN hook.sockets : hook.sockets[s].readyState \in Live}

\* C37: after disconnect(), with no connect() by the caller since, once the
\* close events the disconnect triggered have been handled no reconnect timer is
\* pending and no socket of the hook is connecting or open.
C37_DisconnectIsFinal ==
    (hookCall.disconnected /\ ~ClosePending) =>
        /\ hook.timers = {}
        /\ LiveSockets = {}

----------------------------------------------------------------------------
(* useWebSocket, the second hook of part_000, and useWS: connect is guarded *)
(* by the socket's readyState, isConnectingRef and shouldReconnectRef, and  *)
(* onclose reconnects only after a close that was not a manual one.         *)

connectGuarded(h) ==
    IF ReadyState(h) \in Live THEN h
    ELSE IF h.isConnecting THEN h
    ELSE IF ~h.shouldReconnect THEN h
    ELSE NewSocket([h EXCEPT !.isConnecting = TRUE])

onopenGuarded(h, s) == onopen([h EXCEPT !.isConnecting = FALSE], s)

\* onclose without its conditions: every close event schedules a reconnect.
oncloseUnguarded(h, code) == onclose([h EXCEPT !.isConnecting = FALSE])

oncloseGuarded(h, code) ==
    LET cleared == ClearHeartbeat([h EXCEPT !.isConnecting = FALSE, !.connected = FALSE])
    IN  IF code # NormalClosure /\ h.shouldReconnect /\ h.reconnectTimeoutRef = 0
        THEN ScheduleReconnect(cleared)
        ELSE cleared

onerrorGuarded(h) == [h EXCEPT !.isConnecting = FALSE, !.error = TRUE]

disconnectGuarded(h) ==
    [disconnect([h EXCEPT !.shouldReconnect = FALSE]) EXCEPT !.isConnecting = FALSE]

manualConnect(h) == connectGuarded([h EXCEPT !.shouldReconnect = TRUE])

\* useEffect: shouldReconnectRef.current = true; setTimeout(() => connect(), 1000)
DelayedAutoConnect ==
    /\ ~hook.mounted
    /\ HookStep("effect", 0,
                [hook EXCEPT !.mounted = TRUE, !.shouldReconnect = TRUE,
                             !.connectTimeout = TRUE], FALSE)

\* The effect's cleanup: clearTimeout(connectTimeout); disconnect()
GuardedCleanup ==
    /\ hook.mounted
    /\ HookStep("cleanup", 0,
                [disconnectGuarded(hook) EXCEPT !.mounted = FALSE, !.connectTimeout = FALSE],
                TRUE)

ConnectTimeoutFires ==
    /\ hook.connectTimeout
    /\ HookStep("connect", 0, connectGuarded([hook EXCEPT !.connectTimeout = FALSE]),
                hookCall.disconnected)

CallManualConnect == hook.mounted /\ HookStep("connect", 0, manualConnect(hook), FALSE)

CallDisconnectGuarded ==
    hook.mounted /\ HookStep("disconnect", 0, disconnectGuarded(hook), TRUE)

GuardedSocketOpens ==
    \E s \in DOMAIN hook.sockets :
        /\ hook.sockets[s].readyState = "CONNECTING"
        /\ HookStep("onopen", 0, onopenGuarded(Becomes(hook, s, "OPEN"), s),
                    hookCall.disconnected)

GuardedSocketFails ==
    \E s \in DOMAIN hook.sockets :
        /\ hook.sockets[s].readyState = "CONNECTING"
        /\ HookStep("onclose", AbnormalClosure,
                    oncloseGuarded(onerrorGuarded(Becomes(hook, s, "CLOSED")), AbnormalClosure),
                    hookCall.disconnected)

GuardedSocketCloses ==
    \E s \in DOMAIN hook.sockets : \E code \in EventCodes(hook, s) :
        /\ hook.sockets[s].readyState \in {"OPEN", "CLOSING"}
        /\ HookStep("onclose", code, oncloseGuarded(Becomes(hook, s, "CLOSED"), code),
                    hookCall.disconnected)

\* () => { reconnectTimeoutRef.current = null; connect() }
GuardedReconnectFires ==
    \E t \in hook.timers :
        HookStep("reconnect", 0,
                 connectGuarded([hook EXCEPT !.timers = @ \ {t}, !.reconnectTimeoutRef = 0]),
                 hookCall.disconnected)

NextGuarded ==
    \/ DelayedAutoConnect
    \/ GuardedCleanup
    \/ ConnectTimeoutFires
    \/ CallManualConnect
    \/ CallDisconnectGuarded
    \/ GuardedSocketOpens
    \/ GuardedSocketFails
    \/ GuardedSocketCloses
    \/ GuardedReconnectFires

SpecGuarded == Init /\ [][NextGuarded]_vars

\* The heartbeat interval the hook holds pings the current socket.
HeartbeatRunning ==
    \E i \in hook.intervals : i.id = hook.heartbeatIntervalRef /\ i.ws = hook.wsRef

\* C38: whenever the hook's current socket is open and no close event is
\* pending, connected is true and the heartbeat of that socket is running: a
\* close event of a replaced socket leaves the current connection alone.
C38_StaleCloseIgnored ==
    (ReadyState(hook) = "OPEN" /\ ~ClosePending) =>
        /\ hook.connected
        /\ HeartbeatRunning

\* A reconnect timeout is set in this step.
ReconnectScheduled == hook'.timers \ hook.timers # {}

\* C39: at most one socket of the guarded hook is CONNECTING or OPEN, at most
\* one reconnect timer is pending, and a reconnect is scheduled only by the
\* close event of a close with a code other than 1000 while shouldReconnect is
\* set.
C39_OneSocketOneTimer ==
    /\ [](Cardinality(LiveSockets) <= 1 /\ Cardinality(hook.timers) <= 1)
    /\ [][ReconnectScheduled =>
            /\ hookCall'.op = "onclose"
            /\ hookCall'.code # NormalClosure
            /\ hook.shouldReconnect]_vars

\* A replaced socket that never opened closes with 1006 while the next socket
\* is live: a reconnect is scheduled next to a live socket.
C39_Witness ==
    /\ hookCall.op = "onclose"
    /\ hookCall.code = AbnormalClosure
    /\ Cardinality(hook.timers) = 1
    /\ Cardinality(LiveSockets) = 1
    /\ Len(hook.sockets) >= 2

====
